---- MODULE Spec2Model ----
(***************************************************************************)
(* Model of the IQAir scraping engine (server/iqair.ts):                   *)
(*   fetchIQAirTopCities            - ranking table parser                 *)
(*   parseIQAirSearchResponseSimple - flat-array record reconstructor      *)
(*   searchIQAirCities              - search endpoint call                 *)
(*   fetchIQAirCityByName           - city resolver (match tiers)          *)
(*   fetchIQAirCityDetailsByName    - detail page extractor                *)
(* and of the command that uses it (src/iqair.tsx):                        *)
(*   fetchIQAirCityDetails          - details of a city, or of the top one *)
(*   getAQILevelColor               - colour of a level label              *)
(* Text is modelled by TLA+ strings and every conversion (trim, parseInt,  *)
(* parseFloat, toLowerCase, split, includes) is computed character by      *)
(* character.  HTML documents are modelled by what the cheerio selectors   *)
(* of the code return on them.                                             *)
(***************************************************************************)
EXTENDS Integers, Sequences, FiniteSets, TLC

VARIABLES
    city,           \* fetchIQAirCityDetails: the argument, as a list of 0 (null) or 1
    level,          \* getAQILevelColor: the argument
    color,          \* getAQILevelColor: the returned colour ("" before the call)
    entry,          \* the exported function that was called
    pc,             \* position of the call
    outcome,        \* "pending", "ok" (a value is returned), "null", "error"
    err,            \* message of the Error thrown ("" when none)
    requests,       \* outbound requests issued so far, in order
    limit,          \* fetchIQAirTopCities: the limit argument
    rankResp,       \* response of the world-ranking page
    topCities,      \* fetchIQAirTopCities: the returned list
    cityName,       \* fetchIQAirCityByName / searchIQAirCities: the argument
    searchResp,     \* response of the search-results endpoint
    searchResults,  \* value returned by searchIQAirCities
    found,          \* fetchIQAirCityByName: the chosen search result, as a list of 0 or 1
    baseInfo,       \* value returned by fetchIQAirCityByName, as a list of 0 or 1
    detailResp,     \* response of the city detail page
    details         \* value returned by fetchIQAirCityDetailsByName, as a list of 0 or 1

vars == <<city, level, color, entry, pc, outcome, err, requests, limit, rankResp, topCities,
          cityName, searchResp, searchResults, found, baseInfo, detailResp, details>>

-----------------------------------------------------------------------------
(* Bounds of the explored inputs *)

MaxRows == 3        \* body rows of a ranking table
MaxData == 4        \* entries of the flat search array (reconstructor runs)
MaxCands == 3       \* entries of the flat search array (resolver runs)
MaxCardDivs == 2    \* divs inside the AQI card
MaxPollRows == 2    \* body rows of the pollutants table

-----------------------------------------------------------------------------
(* JavaScript string primitives *)

Min(a, b) == IF a < b THEN a ELSE b
Max(a, b) == IF a > b THEN a ELSE b

CharAt(s, i) == SubSeq(s, i, i)

Slice(s, i) == SubSeq(s, i, Len(s))

StartsWith(s, p) == Len(p) <= Len(s) /\ SubSeq(s, 1, Len(p)) = p

EndsWith(s, p) == Len(p) <= Len(s) /\ SubSeq(s, Len(s) - Len(p) + 1, Len(s)) = p

\* the first position >= i where sub occurs in s; 0 when there is none
RECURSIVE IndexFrom(_, _, _)
IndexFrom(s, sub, i) ==
    IF i + Len(sub) - 1 > Len(s) THEN 0
    ELSE IF SubSeq(s, i, i + Len(sub) - 1) = sub THEN i
    ELSE IndexFrom(s, sub, i + 1)

\* String.prototype.indexOf, 1-based; 0 when sub does not occur
IndexOf(s, sub) == IndexFrom(s, sub, 1)

Includes(s, sub) == sub = "" \/ IndexOf(s, sub) > 0

IsSpace(c) == c \in {" ", "\t", "\n"}

Digits == "0123456789"

IsDigit(c) == Len(c) = 1 /\ IndexOf(Digits, c) > 0

DigitVal(c) == IndexOf(Digits, c) - 1

RECURSIVE TrimStart(_)
TrimStart(s) ==
    IF s # "" /\ IsSpace(CharAt(s, 1)) THEN TrimStart(Slice(s, 2)) ELSE s

RECURSIVE TrimEnd(_)
TrimEnd(s) ==
    IF s # "" /\ IsSpace(CharAt(s, Len(s))) THEN TrimEnd(SubSeq(s, 1, Len(s) - 1)) ELSE s

Trim(s) == TrimEnd(TrimStart(s))

UpperLetters == "ABCDEFGHIJKLMNOPQRSTUVWXYZ"
LowerLetters == "abcdefghijklmnopqrstuvwxyz"

\* the case mappings as tables from one-character strings
LowerOf ==
    [c \in {CharAt(UpperLetters, i) : i \in 1..Len(UpperLetters)} |->
        CharAt(LowerLetters, IndexOf(UpperLetters, c))]

UpperOf ==
    [c \in {CharAt(LowerLetters, i) : i \in 1..Len(LowerLetters)} |->
        CharAt(UpperLetters, IndexOf(LowerLetters, c))]

LowerChar(c) == IF c \in DOMAIN LowerOf THEN LowerOf[c] ELSE c

UpperChar(c) == IF c \in DOMAIN UpperOf THEN UpperOf[c] ELSE c

RECURSIVE ToLowerCase(_)
ToLowerCase(s) ==
    IF s = "" THEN "" ELSE LowerChar(CharAt(s, 1)) \o ToLowerCase(Slice(s, 2))

\* s.split(sep) for a one-character separator
RECURSIVE Split(_, _)
Split(s, sep) ==
    LET k == IndexOf(s, sep)
    IN  IF k = 0 THEN <<s>>
        ELSE <<SubSeq(s, 1, k - 1)>> \o Split(Slice(s, k + 1), sep)

\* arr.filter(Boolean) on an array of strings
RECURSIVE FilterBoolean(_)
FilterBoolean(arr) ==
    IF arr = <<>> THEN <<>>
    ELSE (IF Head(arr) = "" THEN <<>> ELSE <<Head(arr)>>) \o FilterBoolean(Tail(arr))

\* arr.join(sep)
RECURSIVE Join(_, _)
Join(arr, sep) ==
    IF arr = <<>> THEN ""
    ELSE IF Len(arr) = 1 THEN arr[1]
    ELSE arr[1] \o sep \o Join(Tail(arr), sep)

\* s.split("/").filter(Boolean)
PathParts(s) == FilterBoolean(Split(s, "/"))

-----------------------------------------------------------------------------
(* Numbers: a JavaScript number is NaN or a value.  Integers are kept as   *)
(* they are; floats are kept in hundredths (see ParseFloat).               *)

NaN == [nan |-> TRUE, val |-> 0]
Num(n) == [nan |-> FALSE, val |-> n]

\* value of the longest prefix of digits of s, and its length
RECURSIVE DigitRun(_, _, _)
DigitRun(s, acc, n) ==
    IF s # "" /\ IsDigit(CharAt(s, 1))
    THEN DigitRun(Slice(s, 2), acc * 10 + DigitVal(CharAt(s, 1)), n + 1)
    ELSE [val |-> acc, len |-> n]

\* Number.parseInt(s, 10)
ParseInt(s) ==
    LET t == TrimStart(s)
        neg == StartsWith(t, "-")
        body == IF StartsWith(t, "-") \/ StartsWith(t, "+") THEN Slice(t, 2) ELSE t
        run == DigitRun(body, 0, 0)
    IN  IF run.len = 0 THEN NaN
        ELSE Num(IF neg THEN 0 - run.val ELSE run.val)

-----------------------------------------------------------------------------
(* URLs *)

Origin == "https://www.iqair.com"

\* index of the first character of s that is one of the characters of cs; 0 if none
FirstOf(s, cs) ==
    LET Scan[i \in 1..(Len(s) + 1)] ==
            IF i > Len(s) THEN 0
            ELSE IF IndexOf(cs, CharAt(s, i)) > 0 THEN i
            ELSE Scan[i + 1]
    IN  Scan[1]

\* new URL(url).pathname for http(s) URLs; ok = FALSE when the constructor throws
UrlPathname(url) ==
    LET rest == IF StartsWith(url, "https://") THEN Slice(url, 9)
                ELSE IF StartsWith(url, "http://") THEN Slice(url, 8)
                ELSE ""
        hasScheme == StartsWith(url, "https://") \/ StartsWith(url, "http://")
        h == FirstOf(rest, "/?#")
        host == IF h = 0 THEN rest ELSE SubSeq(rest, 1, h - 1)
        tail == IF h = 0 THEN "" ELSE Slice(rest, h)
        q == FirstOf(tail, "?#")
        path == IF q = 0 THEN tail ELSE SubSeq(tail, 1, q - 1)
    IN  IF ~hasScheme \/ host = "" THEN [ok |-> FALSE, pathname |-> ""]
        ELSE [ok |-> TRUE, pathname |-> IF path = "" THEN "/" ELSE path]

-----------------------------------------------------------------------------
(* fetchIQAirTopCities                                                     *)
(* A ranking document is the list of its <table> elements.  A table is     *)
(*   headRows : for each "thead tr", the texts of its th cells             *)
(*   rows     : for each "tbody tr", what the row selectors return:        *)
(*     th   text of the first th ("" when there is none)                   *)
(*     ntd  number of td cells                                             *)
(*     city text of the first p of the first td                            *)
(*     aqi  text of the first p of the second td                           *)
(*     href href of the last a[href] ("" when there is none)               *)

\* headers of "thead tr" .first(): the th texts, trimmed
TableHeaders(t) ==
    IF t.headRows = <<>> THEN <<>>
    ELSE [i \in 1..Len(t.headRows[1]) |-> Trim(t.headRows[1][i])]

\* variant: any header row may carry the "Cities"/"AQI" pair
QualifiesAnyHeadRow(t) ==
    \E r \in 1..Len(t.headRows) :
        /\ Len(t.headRows[r]) >= 3
        /\ Includes(t.headRows[r][2], "Cities")
        /\ Includes(t.headRows[r][3], "AQI")

\* headers[1]?.includes("Cities") && headers[2]?.includes("AQI")
Qualifies(t) ==
    LET headers == TableHeaders(t)
    IN  /\ Len(headers) >= 3
        /\ Includes(headers[2], "Cities")
        /\ Includes(headers[3], "AQI")

\* $("table").filter(...).first(): index of the first qualifying table, 0 if none
RankingTable(tables) ==
    IF \E i \in 1..Len(tables) : Qualifies(tables[i])
    THEN CHOOSE i \in 1..Len(tables) :
             Qualifies(tables[i]) /\ \A k \in 1..(i - 1) : ~Qualifies(tables[k])
    ELSE 0

AbsoluteUrl(href) == IF StartsWith(href, "http") THEN href ELSE Origin \o href

CountrySlug(url) ==
    LET u == UrlPathname(url)
        parts == PathParts(u.pathname)
    IN  IF u.ok /\ Len(parts) >= 2 THEN parts[2] ELSE ""

\* the record pushed for the row at (1-based) position k
RankingRecord(row, k) ==
    LET rk == ParseInt(Trim(row.th))
        url == AbsoluteUrl(row.href)
    IN  [rank |-> IF rk.nan \/ rk.val = 0 THEN k ELSE rk.val,
         city |-> Trim(row.city),
         countrySlug |-> CountrySlug(url),
         aqi |-> ParseInt(Trim(row.aqi)).val,
         url |-> url]

\* tds.length < 2, !city or Number.isNaN(aqi): the row is skipped
RowSkipped(row) ==
    \/ row.ntd < 2
    \/ Trim(row.city) = ""
    \/ ParseInt(Trim(row.aqi)).nan

\* variant: the limit counts the rows visited instead of the records pushed
RECURSIVE EachRowUpToLimit(_, _, _, _)
EachRowUpToLimit(rows, k, lim, result) ==
    IF k > Len(rows) THEN result
    ELSE IF k > lim THEN result
    ELSE IF RowSkipped(rows[k]) THEN EachRowUpToLimit(rows, k + 1, lim, result)
    ELSE EachRowUpToLimit(rows, k + 1, lim, Append(result, RankingRecord(rows[k], k)))

\* rows.each(...): the callback from row k on, with the result so far
RECURSIVE EachRow(_, _, _, _)
EachRow(rows, k, lim, result) ==
    IF k > Len(rows) THEN result
    ELSE IF Len(result) >= lim THEN result
    ELSE IF RowSkipped(rows[k]) THEN EachRow(rows, k + 1, lim, result)
    ELSE EachRow(rows, k + 1, lim, Append(result, RankingRecord(rows[k], k)))

TopFetch ==
    /\ pc = "top_fetch"
    /\ requests' = Append(requests, "ranking")
    /\ IF rankResp.ok
       THEN /\ pc' = "top_parse"
            /\ UNCHANGED <<outcome, err>>
       ELSE /\ pc' = "done"
            /\ outcome' = "error"
            /\ err' = "IQAir HTML fetch failed"
    /\ UNCHANGED <<city, level, color, entry, limit, rankResp, topCities, cityName, searchResp,
                   searchResults, found, baseInfo, detailResp, details>>

TopParse ==
    /\ pc = "top_parse"
    /\ LET t == RankingTable(rankResp.tables)
           result == IF t = 0 THEN <<>> ELSE EachRow(rankResp.tables[t].rows, 1, limit, <<>>)
       IN  IF t = 0
           THEN /\ outcome' = "error"
                /\ err' = "IQAir HTML structure: ranking table not found"
                /\ pc' = "done"
                /\ UNCHANGED topCities
           ELSE IF Len(result) = 0
           THEN /\ outcome' = "error"
                /\ err' = "IQAir HTML parsing: no rows parsed from ranking table"
                /\ pc' = "done"
                /\ UNCHANGED topCities
           ELSE /\ topCities' = result
                /\ IF entry = "top"
                   THEN pc' = "done" /\ outcome' = "ok"
                   ELSE pc' = "pick_top" /\ UNCHANGED outcome
                /\ UNCHANGED err
    /\ UNCHANGED <<city, level, color, entry, requests, limit, rankResp, cityName, searchResp,
                   searchResults, found, baseInfo, detailResp, details>>

-----------------------------------------------------------------------------
(* Explored inputs of fetchIQAirTopCities *)

SeqsUpTo(S, n) == UNION {[1..k -> S] : k \in 0..n}

MaxLimit == 3

RowSet ==
    { [th |-> "1", ntd |-> 2, city |-> "Lahore", aqi |-> "187", href |-> "/us/pakistan/punjab/lahore"],
      [th |-> "2", ntd |-> 3, city |-> " Delhi ", aqi |-> " 172 ", href |-> "https://www.iqair.com/us/india/delhi"],
      [th |-> "", ntd |-> 2, city |-> "Dhaka", aqi |-> "0", href |-> ""],
      [th |-> "4", ntd |-> 2, city |-> "  ", aqi |-> "90", href |-> "/us/chad"],
      [th |-> "5", ntd |-> 2, city |-> "Kabul", aqi |-> "n/a", href |-> "/us/afghanistan/kabul"],
      [th |-> "6", ntd |-> 2, city |-> "Oslo", aqi |-> "-5", href |-> "us/norway/oslo"],
      [th |-> "7", ntd |-> 1, city |-> "Lima", aqi |-> "", href |-> "/us/peru/lima"],
      [th |-> "8", ntd |-> 2, city |-> "Baku", aqi |-> "60", href |-> "http-mirror/us/azerbaijan/baku"] }

GoodHead == << <<"Rank", "Major Cities ", " US AQI">> >>

HeadSet ==
    { GoodHead,
      << <<"#", "Cities", "AQI">> >>,
      << <<"Cities", "AQI", "Followers">> >>,
      << <<"#", "cities", "aqi">> >>,
      << <<"#", "Cities">> >>,
      << <<"#", "Country", "Population">>, <<"#", "Cities", "AQI">> >>,
      << >> }

TwoRows ==
    << [th |-> "1", ntd |-> 2, city |-> "Lahore", aqi |-> "187", href |-> "/us/pakistan/punjab/lahore"],
       [th |-> "2", ntd |-> 3, city |-> " Delhi ", aqi |-> " 172 ", href |-> "https://www.iqair.com/us/india/delhi"] >>

OneRow ==
    << [th |-> "9", ntd |-> 2, city |-> "Hanoi", aqi |-> "151", href |-> "/us/vietnam/hanoi"] >>

RankingDocs ==
    {<< [headRows |-> GoodHead, rows |-> rs] >> : rs \in SeqsUpTo(RowSet, MaxRows)}
    \cup {<< [headRows |-> h, rows |-> TwoRows] >> : h \in HeadSet}
    \cup {<< [headRows |-> h, rows |-> OneRow], [headRows |-> GoodHead, rows |-> TwoRows] >> : h \in HeadSet}
    \cup {<< >>}

NoResp == [ok |-> FALSE, tables |-> << >>]

NoDetailResp == [ok |-> FALSE, page |-> [divs |-> << >>, tables |-> << >>]]

InitRank ==
    /\ city = << >>
    /\ level = ""
    /\ color = ""
    /\ entry = "top"
    /\ pc = "top_fetch"
    /\ outcome = "pending"
    /\ err = ""
    /\ requests = << >>
    /\ limit \in 0..MaxLimit
    /\ rankResp \in {NoResp} \cup {[ok |-> TRUE, tables |-> d] : d \in RankingDocs}
    /\ topCities = << >>
    /\ cityName = ""
    /\ searchResp = [ok |-> FALSE, json |-> FALSE, data |-> << >>]
    /\ searchResults = << >>
    /\ found = << >>
    /\ baseInfo = << >>
    /\ detailResp = NoDetailResp
    /\ details = << >>

NextRank == TopFetch \/ TopParse

SpecRank == InitRank /\ [][NextRank]_vars

-----------------------------------------------------------------------------
(* Properties of fetchIQAirTopCities *)

TopDone == entry = "top" /\ pc = "done"

\* the rows of the selected ranking table (none when no table qualifies)
SelectedRows ==
    IF rankResp.ok /\ RankingTable(rankResp.tables) > 0
    THEN rankResp.tables[RankingTable(rankResp.tables)].rows ELSE << >>

\* positions of the rows with two data cells, a city and an AQI that parses
ValidRowIdx ==
    LET rows == SelectedRows
    IN  {k \in 1..Len(rows) :
            /\ rows[k].ntd >= 2
            /\ Trim(rows[k].city) # ""
            /\ ~ParseInt(Trim(rows[k].aqi)).nan}

\* position of the i-th element of the set of positions V
NthOf(V, i) == CHOOSE k \in V : Cardinality({j \in V : j <= k}) = i

\* C1 as stated: with N >= 1 body rows in the qualifying table and limit >= 1
\* the call returns exactly min(N, limit) records, in document order, each
\* with aqi >= 0 and a non-empty city.
C1_AsStated ==
    (TopDone /\ Len(SelectedRows) >= 1 /\ limit >= 1) =>
        /\ outcome = "ok"
        /\ Len(topCities) = Min(Len(SelectedRows), limit)
        /\ \A i \in 1..Len(topCities) :
              /\ topCities[i].city = Trim(SelectedRows[i].city)
              /\ topCities[i].aqi >= 0
              /\ topCities[i].city # ""

\* C1 amended: with V >= 1 valid body rows (two data cells, non-empty city,
\* AQI text that parses as an integer) and limit >= 1 the call returns exactly
\* min(V, limit) records, the first valid rows in document order, each with a
\* non-empty city and the integer parsed from the row's AQI cell.
C1_TopCitiesValidRows ==
    LET V == ValidRowIdx
        rows == SelectedRows
    IN  (TopDone /\ Cardinality(V) >= 1 /\ limit >= 1) =>
            /\ outcome = "ok"
            /\ Len(topCities) = Min(Cardinality(V), limit)
            /\ \A i \in 1..Len(topCities) :
                  LET row == rows[NthOf(V, i)]
                  IN  /\ topCities[i].city = Trim(row.city)
                      /\ topCities[i].city # ""
                      /\ topCities[i].aqi = ParseInt(Trim(row.aqi)).val
                      /\ topCities[i].url = AbsoluteUrl(row.href)

\* the first of three rows is skipped and the two others are returned in order
C1_Witness ==
    /\ TopDone /\ outcome = "ok"
    /\ Len(SelectedRows) = 3 /\ limit = 2
    /\ ValidRowIdx = {2, 3}
    /\ Len(topCities) = 2
    /\ topCities[1].city # topCities[2].city

\* C5: the call fails and returns no list when no table has "Cities" in the
\* second and "AQI" in the third cell of its first header row, and when the
\* qualifying table yields no valid row; a returned list is never empty.
C5_TopCitiesFailures ==
    TopDone =>
        /\ (/\ rankResp.ok
            /\ ~\E i \in 1..Len(rankResp.tables) :
                  LET h == rankResp.tables[i].headRows
                  IN  /\ Len(h) >= 1 /\ Len(h[1]) >= 3
                      /\ Includes(h[1][2], "Cities") /\ Includes(h[1][3], "AQI"))
              => (outcome = "error" /\ topCities = << >>)
        /\ (rankResp.ok /\ ValidRowIdx = {}) => (outcome = "error" /\ topCities = << >>)
        /\ outcome \in {"ok", "error"}
        /\ (outcome = "ok") <=> (topCities # << >>)

\* both failures happen: a page whose only "Cities"/"AQI" pair is in a second
\* header row, or a qualifying table whose rows are all skipped
C5_Witness ==
    /\ TopDone /\ outcome = "error" /\ rankResp.ok
    /\ \/ /\ err = "IQAir HTML structure: ranking table not found"
          /\ \E i \in 1..Len(rankResp.tables) : Len(rankResp.tables[i].headRows) >= 2
       \/ /\ err = "IQAir HTML parsing: no rows parsed from ranking table"
          /\ Len(SelectedRows) >= 2

-----------------------------------------------------------------------------
(* parseIQAirSearchResponseSimple                                          *)
(* An entry of the flat array is a tagged value: t is the typeof tag       *)
(* ("string", "number", "boolean", "null"), s / n / b the value.           *)

StrItem(x) == [t |-> "string", s |-> x, n |-> 0, b |-> FALSE]
NumItem(x) == [t |-> "number", s |-> "", n |-> x, b |-> FALSE]
BoolItem(x) == [t |-> "boolean", s |-> "", n |-> 0, b |-> x]
NullItem == [t |-> "null", s |-> "", n |-> 0, b |-> FALSE]

BackWindow == 30
FwdWindow == 20
AqiBound == 600
MinIdLen == 10
MinFollowers == 100

Abs(x) == IF x < 0 THEN 0 - x ELSE x

\* variant: any path of two or more segments is an anchor
IsAnchorNoUpperBound(item) ==
    /\ item.t = "string"
    /\ StartsWith(item.s, "/")
    /\ ~Includes(item.s, ".")
    /\ Len(PathParts(item.s)) >= 2

\* typeof item === "string" && item.startsWith("/") && !item.includes(".")
\* and 2 <= parts.length <= 3
IsAnchor(item) ==
    /\ item.t = "string"
    /\ StartsWith(item.s, "/")
    /\ ~Includes(item.s, ".")
    /\ Len(PathParts(item.s)) >= 2
    /\ Len(PathParts(item.s)) <= 3

\* word.charAt(0).toUpperCase() + word.slice(1)
Capitalize(w) == IF w = "" THEN "" ELSE UpperChar(CharAt(w, 1)) \o Slice(w, 2)

\* slug.split("-").map(capitalize).join(" ")
DisplayName(slug) ==
    LET ws == Split(slug, "-")
    IN  Join([i \in 1..Len(ws) |-> Capitalize(ws[i])], " ")

IsAlnumChar(c) ==
    IndexOf(UpperLetters, c) > 0 \/ IndexOf(LowerLetters, c) > 0 \/ IndexOf(Digits, c) > 0

\* /^[a-zA-Z0-9]{10,}$/.test(s)
IsIdToken(s) ==
    Len(s) >= MinIdLen /\ \A k \in 1..Len(s) : IsAlnumChar(CharAt(s, k))

\* the backward loop, j ascending from max(0, i - 30) to i - 1 (1-based here)
RECURSIVE BackScan(_, _, _, _)
BackScan(data, j, i, acc) ==
    IF j >= i THEN acc
    ELSE
      LET prev == data[j]
          nxt == data[j + 1]
          a1 == IF prev.t = "string" /\ IsIdToken(prev.s) /\ acc.id = ""
                THEN [acc EXCEPT !.id = prev.s] ELSE acc
          a2 == IF /\ prev.t = "number" /\ prev.n > 0 /\ prev.n < AqiBound
                   /\ a1.aqi = 0 /\ nxt.t = "boolean"
                THEN [a1 EXCEPT !.aqi = prev.n, !.estimated = nxt.b] ELSE a1
          a3 == IF /\ prev.t = "number" /\ prev.n > -180 /\ prev.n < 180
                   /\ nxt.t = "number" /\ nxt.n > -180 /\ nxt.n < 180
                   /\ prev.n > -90 /\ prev.n < 90 /\ Abs(prev.n) > 1
                THEN [a2 EXCEPT !.latitude = prev.n, !.longitude = nxt.n] ELSE a2
      IN  BackScan(data, j + 1, i, a3)

\* the forward loop: first number > 100 at j in i+1 .. min(length, i + 20) - 1
FollowersCount(data, i) ==
    LET last == Min(Len(data), i + FwdWindow - 1)
        hit(j) == data[j].t = "number" /\ data[j].n > MinFollowers
    IN  IF \E j \in (i + 1)..last : hit(j)
        THEN data[CHOOSE j \in (i + 1)..last :
                     hit(j) /\ \A k \in (i + 1)..(j - 1) : ~hit(k)].n
        ELSE 0

\* the record pushed for the anchor at index i
SearchRecord(data, i) ==
    LET parts == PathParts(data[i].s)
        back == BackScan(data, Max(1, i - BackWindow), i,
                         [id |-> "", aqi |-> 0, estimated |-> FALSE,
                          latitude |-> 0, longitude |-> 0])
    IN  [id |-> back.id,
         name |-> DisplayName(parts[Len(parts)]),
         state |-> DisplayName(IF Len(parts) = 3 THEN parts[2] ELSE ""),
         country |-> DisplayName(parts[1]),
         url |-> data[i].s,
         aqi |-> back.aqi,
         estimated |-> back.estimated,
         latitude |-> back.latitude,
         longitude |-> back.longitude,
         followersCount |-> FollowersCount(data, i)]

\* the main loop: anchors not seen before, in array order
RECURSIVE ScanAnchors(_, _, _, _)
ScanAnchors(data, i, seenUrls, results) ==
    IF i > Len(data) THEN results
    ELSE IF IsAnchor(data[i]) /\ data[i].s \notin seenUrls
    THEN ScanAnchors(data, i + 1, seenUrls \cup {data[i].s},
                     Append(results, SearchRecord(data, i)))
    ELSE ScanAnchors(data, i + 1, seenUrls, results)

\* variant: followersCount alone decides the order
CompareFollowersOnly(a, b) == b.followersCount - a.followersCount

\* the comparator of results.sort
Compare(a, b) ==
    LET aParts == Len(PathParts(a.url))
        bParts == Len(PathParts(b.url))
    IN  IF aParts = 3 /\ bParts = 2 THEN -1
        ELSE IF aParts = 2 /\ bParts = 3 THEN 1
        ELSE b.followersCount - a.followersCount

\* stable insertion of x into the sorted list: after every e with Compare(e, x) <= 0
RECURSIVE InsertSorted(_, _)
InsertSorted(sorted, x) ==
    IF sorted = << >> THEN <<x>>
    ELSE IF Compare(Head(sorted), x) <= 0
    THEN <<Head(sorted)>> \o InsertSorted(Tail(sorted), x)
    ELSE <<x>> \o sorted

\* Array.prototype.sort (stable)
RECURSIVE SortResults(_)
SortResults(rs) ==
    IF rs = << >> THEN << >>
    ELSE InsertSorted(SortResults(SubSeq(rs, 1, Len(rs) - 1)), rs[Len(rs)])

parseIQAirSearchResponseSimple(data) ==
    SortResults(ScanAnchors(data, 1, {}, << >>))

-----------------------------------------------------------------------------
(* searchIQAirCities *)

\* query.trim() is empty: throws before any request; otherwise goes on to fetch
SearchStart ==
    /\ pc = "search_start"
    /\ IF Trim(cityName) = ""
       THEN /\ pc' = "done"
            /\ outcome' = "error"
            /\ err' = "Search query is required"
       ELSE /\ pc' = "search_fetch"
            /\ UNCHANGED <<outcome, err>>
    /\ UNCHANGED <<city, level, color, entry, requests, limit, rankResp, topCities, cityName, searchResp,
                   searchResults, found, baseInfo, detailResp, details>>

\* variant: the status of the search response is not looked at
SearchFetchIgnoresStatus ==
    /\ pc = "search_fetch"
    /\ requests' = Append(requests, "search")
    /\ pc' = "search_parse"
    /\ UNCHANGED <<city, level, color, entry, outcome, err, limit, rankResp, topCities, cityName,
                   searchResp, searchResults, found, baseInfo, detailResp, details>>

SearchFetch ==
    /\ pc = "search_fetch"
    /\ requests' = Append(requests, "search")
    /\ IF searchResp.ok
       THEN /\ pc' = "search_parse"
            /\ UNCHANGED <<outcome, err>>
       ELSE /\ pc' = "done"
            /\ outcome' = "error"
            /\ err' = "IQAir search API failed"
    /\ UNCHANGED <<city, level, color, entry, limit, rankResp, topCities, cityName, searchResp,
                   searchResults, found, baseInfo, detailResp, details>>

\* JSON.parse and parseIQAirSearchResponseSimple inside the try block
SearchParse ==
    /\ pc = "search_parse"
    /\ IF ~searchResp.json
       THEN /\ pc' = "done"
            /\ outcome' = "error"
            /\ err' = "Failed to parse IQAir search response"
            /\ UNCHANGED searchResults
       ELSE /\ searchResults' = parseIQAirSearchResponseSimple(searchResp.data)
            /\ IF entry = "search"
               THEN pc' = "done" /\ outcome' = "ok"
               ELSE pc' = "match" /\ UNCHANGED outcome
            /\ UNCHANGED err
    /\ UNCHANGED <<city, level, color, entry, requests, limit, rankResp, topCities, cityName, searchResp,
                   found, baseInfo, detailResp, details>>

-----------------------------------------------------------------------------
(* fetchIQAirCityByName *)

\* variant: the name is lowercased but not trimmed
NormalizedQueryNoTrim(name) == ToLowerCase(name)

\* cityName.trim().toLowerCase()
NormalizedQuery(name) == ToLowerCase(Trim(name))

\* q.replace(/\s+(city|town)$/, "")
StripSuffix(q) ==
    LET stem == SubSeq(q, 1, Len(q) - 4)
    IN  IF /\ Len(q) >= 5
           /\ (EndsWith(q, "city") \/ EndsWith(q, "town"))
           /\ IsSpace(CharAt(stem, Len(stem)))
        THEN TrimEnd(stem) ELSE q

UrlParts(c) == Len(PathParts(c.url))

\* variant: the suffix tiers test the direction of tiers 5 and 6
TierHitSuffixReversed(t, c, q) ==
    LET cityLower == ToLowerCase(c.name)
        queryNoSuffix == StripSuffix(q)
    IN  CASE t = 1 -> cityLower = q /\ UrlParts(c) = 3
          [] t = 2 -> cityLower = q
          [] t = 3 -> Includes(cityLower, q) /\ UrlParts(c) = 3
          [] t = 4 -> Includes(cityLower, q)
          [] t = 5 -> Includes(q, cityLower) /\ UrlParts(c) = 3
          [] t = 6 -> Includes(q, cityLower)
          [] t = 7 -> Includes(queryNoSuffix, cityLower) /\ UrlParts(c) = 3
          [] t = 8 -> Includes(queryNoSuffix, cityLower)

\* the predicate of the t-th searchResults.find of the cascade
TierHit(t, c, q) ==
    LET cityLower == ToLowerCase(c.name)
        queryNoSuffix == StripSuffix(q)
    IN  CASE t = 1 -> cityLower = q /\ UrlParts(c) = 3
          [] t = 2 -> cityLower = q
          [] t = 3 -> Includes(cityLower, q) /\ UrlParts(c) = 3
          [] t = 4 -> Includes(cityLower, q)
          [] t = 5 -> Includes(q, cityLower) /\ UrlParts(c) = 3
          [] t = 6 -> Includes(q, cityLower)
          [] t = 7 -> (cityLower = queryNoSuffix \/ Includes(cityLower, queryNoSuffix))
                      /\ UrlParts(c) = 3
          [] t = 8 -> cityLower = queryNoSuffix \/ Includes(cityLower, queryNoSuffix)

NumFinds == 8

\* searchResults.find(pred of tier t): index of the first hit, 0 when undefined
RECURSIVE FindFrom(_, _, _, _)
FindFrom(results, i, t, q) ==
    IF i > Len(results) THEN 0
    ELSE IF TierHit(t, results[i], q) THEN i
    ELSE FindFrom(results, i + 1, t, q)

FindTier(results, t, q) == FindFrom(results, 1, t, q)

\* variant: the cascade starts with the substring matches, the exact ones are skipped
RECURSIVE CascadeSubstringFirst(_, _, _)
CascadeSubstringFirst(results, q, t) ==
    IF t > NumFinds THEN 1
    ELSE IF t < 3 THEN CascadeSubstringFirst(results, q, 3)
    ELSE IF FindTier(results, t, q) > 0 THEN FindTier(results, t, q)
    ELSE CascadeSubstringFirst(results, q, t + 1)

\* variant: when no find hits, the last result is taken
RECURSIVE CascadeFallbackLast(_, _, _)
CascadeFallbackLast(results, q, t) ==
    IF t > NumFinds THEN Len(results)
    ELSE IF FindTier(results, t, q) > 0 THEN FindTier(results, t, q)
    ELSE CascadeFallbackLast(results, q, t + 1)

\* the chain of "if (!found) found = ..." from tier t on; ends with searchResults[0]
RECURSIVE Cascade(_, _, _)
Cascade(results, q, t) ==
    IF t > NumFinds THEN 1
    ELSE LET hit == FindTier(results, t, q)
         IN  IF hit > 0 THEN hit ELSE Cascade(results, q, t + 1)

\* s.replace(/\s+/g, "-")
RECURSIVE SpacesToHyphen(_)
SpacesToHyphen(s) ==
    IF s = "" THEN ""
    ELSE IF IsSpace(CharAt(s, 1)) THEN "-" \o SpacesToHyphen(TrimStart(s))
    ELSE CharAt(s, 1) \o SpacesToHyphen(Slice(s, 2))

\* conversion of the chosen search result to IQAirCityRanking
ToCityRanking(c) ==
    [rank |-> 0,
     city |-> c.name,
     countrySlug |-> SpacesToHyphen(ToLowerCase(c.country)),
     aqi |-> c.aqi,
     url |-> IF StartsWith(c.url, "http") THEN c.url ELSE Origin \o "/us" \o c.url]

\* normalizedQuery is empty: throws before searchIQAirCities is called
ResolveStart ==
    /\ pc = "resolve_start"
    /\ IF NormalizedQuery(cityName) = ""
       THEN /\ pc' = "done"
            /\ outcome' = "error"
            /\ err' = "City name is required"
       ELSE /\ pc' = "search_start"
            /\ UNCHANGED <<outcome, err>>
    /\ UNCHANGED <<city, level, color, entry, requests, limit, rankResp, topCities, cityName, searchResp,
                   searchResults, found, baseInfo, detailResp, details>>

\* everything after "await searchIQAirCities(cityName)"
Match ==
    /\ pc = "match"
    /\ IF Len(searchResults) = 0
       THEN /\ found' = << >>
            /\ baseInfo' = << >>
            /\ IF entry = "resolve"
               THEN pc' = "done" /\ outcome' = "null"
               ELSE pc' = "detail_start" /\ UNCHANGED outcome
       ELSE LET f == searchResults[Cascade(searchResults, NormalizedQuery(cityName), 1)]
            IN  /\ found' = <<f>>
                /\ baseInfo' = <<ToCityRanking(f)>>
                /\ IF entry = "resolve"
                   THEN pc' = "done" /\ outcome' = "ok"
                   ELSE pc' = "detail_start" /\ UNCHANGED outcome
    /\ UNCHANGED <<city, level, color, entry, err, requests, limit, rankResp, topCities, cityName, searchResp,
                   searchResults, detailResp, details>>

-----------------------------------------------------------------------------
(* Explored inputs of searchIQAirCities and fetchIQAirCityByName *)

NoSearchResp == [ok |-> FALSE, json |-> FALSE, data |-> << >>]
BadJsonResp == [ok |-> TRUE, json |-> FALSE, data |-> << >>]

\* anchors and follower counts
AnchorTokens ==
    { StrItem("/uzbekistan/tashkent/tashkent"),
      StrItem("/usa/new-york/new-york-city"),
      StrItem("/india/delhi"),
      NumItem(150), NumItem(300) }

\* everything but anchors: near-paths, an id, scalars
PlainTokens ==
    { StrItem("/static/logo.png"),
      StrItem("/us/usa/texas/austin/station"),
      StrItem("/profile"),
      StrItem("aB3dE6gH9jK"),
      NumItem(150),
      BoolItem(TRUE),
      NullItem }

\* an anchor, then nulls, then a followers number at distance d from the anchor
PaddedArray(d) ==
    [k \in 1..(d + 1) |->
        IF k = 1 THEN StrItem("/india/delhi")
        ELSE IF k = d + 1 THEN NumItem(300) ELSE NullItem]

\* full city objects: id, aqi, estimated, coordinates, anchor, followers
ObjectArrays ==
    { << StrItem("aB3dE6gH9jK"), NumItem(57), BoolItem(TRUE), NumItem(41), NumItem(69),
         StrItem("/uzbekistan/tashkent/tashkent"), NullItem, NumItem(300) >>,
      << NumItem(57), BoolItem(FALSE), StrItem("/india/delhi"),
         StrItem("/usa/new-york/new-york-city"), StrItem("/india/delhi") >>,
      << StrItem("aB3dE6gH9jK"), NumItem(40), BoolItem(TRUE),
         StrItem("zY8xW7vU6tS5"), NumItem(57), BoolItem(FALSE),
         StrItem("/uzbekistan/tashkent/tashkent") >>,
      PaddedArray(FwdWindow - 1), PaddedArray(FwdWindow) }

DataArrays ==
    SeqsUpTo(AnchorTokens, MaxData) \cup SeqsUpTo(PlainTokens, MaxData) \cup ObjectArrays

CandTokens ==
    { StrItem("/uzbekistan/tashkent/tashkent"),
      StrItem("/uzbekistan/tashkent"),
      StrItem("/uzbekistan/tashkent/new-tashkent"),
      StrItem("/uzbekistan/tashkent-region"),
      StrItem("/india/delhi/new-delhi"),
      NumItem(500) }

Queries ==
    { "tashkent", " Tashkent ", "tashkent city", "tash city", "delhi", "", "  " }

InitCommon ==
    /\ city = << >>
    /\ level = ""
    /\ color = ""
    /\ outcome = "pending"
    /\ err = ""
    /\ requests = << >>
    /\ topCities = << >>
    /\ searchResults = << >>
    /\ found = << >>
    /\ baseInfo = << >>
    /\ details = << >>

InitSearch ==
    /\ InitCommon
    /\ entry = "search"
    /\ pc = "search_start"
    /\ limit = 0
    /\ rankResp = NoResp
    /\ \/ /\ cityName = "tashkent"
          /\ searchResp \in {NoSearchResp, BadJsonResp}
                \cup {[ok |-> TRUE, json |-> TRUE, data |-> d] : d \in DataArrays}
       \/ /\ cityName = " "
          /\ searchResp = NoSearchResp
    /\ detailResp = NoDetailResp

NextSearch == SearchStart \/ SearchFetch \/ SearchParse

SpecSearch == InitSearch /\ [][NextSearch]_vars

InitResolve ==
    /\ InitCommon
    /\ entry = "resolve"
    /\ pc = "resolve_start"
    /\ limit = 0
    /\ rankResp = NoResp
    /\ cityName \in Queries
    /\ searchResp \in {NoSearchResp, BadJsonResp}
           \cup {[ok |-> TRUE, json |-> TRUE, data |-> d] : d \in SeqsUpTo(CandTokens, MaxCands)}
    /\ detailResp = NoDetailResp

NextResolve == ResolveStart \/ SearchStart \/ SearchFetch \/ SearchParse \/ Match

SpecResolve == InitResolve /\ [][NextResolve]_vars

-----------------------------------------------------------------------------
(* fetchIQAirCityDetailsByName: the detail page                            *)
(* A detail page is                                                        *)
(*   divs   : the top-level div elements, each with its class attribute    *)
(*            and its descendant divs (kids); a kid has a class attribute  *)
(*            and its p elements (class attribute and text)                *)
(*   tables : the table elements, each with its title attribute ("" when   *)
(*            absent) and what the selectors return on its "tbody tr"      *)
(* The text of an element is the concatenation of the texts below it.      *)
(* The micro sign and the superscript three are written "u" and "3":       *)
(* "ug/m3" stands for the unit of the page.                                *)

DefaultUnit == "ug/m3"

\* floats are kept in hundredths: parseFloat("12.5") is Num(1250)
RECURSIVE FracRun(_, _, _)
FracRun(s, acc, n) ==
    IF s # "" /\ IsDigit(CharAt(s, 1))
    THEN FracRun(Slice(s, 2),
                 IF n = 0 THEN acc + 10 * DigitVal(CharAt(s, 1))
                 ELSE IF n = 1 THEN acc + DigitVal(CharAt(s, 1)) ELSE acc,
                 n + 1)
    ELSE [val |-> acc, len |-> n]

\* Number.parseFloat(s), decimal notation
ParseFloat(s) ==
    LET t == TrimStart(s)
        neg == StartsWith(t, "-")
        body == IF StartsWith(t, "-") \/ StartsWith(t, "+") THEN Slice(t, 2) ELSE t
        int == DigitRun(body, 0, 0)
        rest == Slice(body, int.len + 1)
        frac == IF StartsWith(rest, ".") THEN FracRun(Slice(rest, 2), 0, 0)
                ELSE [val |-> 0, len |-> 0]
        mag == int.val * 100 + frac.val
    IN  IF int.len = 0 /\ frac.len = 0 THEN NaN
        ELSE Num(IF neg THEN 0 - mag ELSE mag)

\* s.replace(sub, rep) with a string pattern: the first occurrence only
ReplaceFirst(s, sub, rep) ==
    LET k == IndexOf(s, sub)
    IN  IF sub = "" THEN rep \o s
        ELSE IF k = 0 THEN s
        ELSE SubSeq(s, 1, k - 1) \o rep \o Slice(s, k + Len(sub))

\* s.split(/\s+/) on a trimmed string
RECURSIVE SplitSpaces(_)
SplitSpaces(s) ==
    LET k == FirstOf(s, " \t\n")
    IN  IF k = 0 THEN <<s>>
        ELSE <<SubSeq(s, 1, k - 1)>> \o SplitSpaces(TrimStart(Slice(s, k)))

\* element.text() of a kid div
KidText(kid) == Join([i \in 1..Len(kid.ps) |-> kid.ps[i].text], "")

\* the p elements below the card, in document order
RECURSIVE CardPs(_)
CardPs(kids) ==
    IF kids = << >> THEN << >> ELSE Head(kids).ps \o CardPs(Tail(kids))

\* aqiCard.text()
CardText(kids) == Join([i \in 1..Len(kids) |-> KidText(kids[i])], "")

\* the class attribute holds the class name c
HasClass(cls, c) == \E i \in 1..Len(Split(cls, " ")) : Split(cls, " ")[i] = c

\* cls.includes("aqi-box-shadow") || cls.includes("aqi-bg-")
IsAqiCard(div) == Includes(div.cls, "aqi-box-shadow") \/ Includes(div.cls, "aqi-bg-")

\* $("div").filter(...).first(): index of the card among the divs, 0 if none
AqiCard(divs) ==
    IF \E i \in 1..Len(divs) : IsAqiCard(divs[i])
    THEN CHOOSE i \in 1..Len(divs) :
             IsAqiCard(divs[i]) /\ \A k \in 1..(i - 1) : ~IsAqiCard(divs[k])
    ELSE 0

\* index of the first element of seq satisfying P, 0 if none
FirstIdx(seq, P(_)) ==
    IF \E i \in 1..Len(seq) : P(seq[i])
    THEN CHOOSE i \in 1..Len(seq) : P(seq[i]) /\ \A k \in 1..(i - 1) : ~P(seq[k])
    ELSE 0

AqiMax == 500

\* !Number.isNaN(num) && num > 0 && num <= 500 for the text of a p
PlausibleAqi(p) ==
    LET num == ParseInt(Trim(p.text))
    IN  ~num.nan /\ num.val > 0 /\ num.val <= AqiMax

\* strategy 1: the first plausible number of the first div whose text has "AQI"
HasAqiLabel(kid) == Includes(KidText(kid), "AQI") \/ Includes(KidText(kid), "US AQI")

\* the number of the k-th p, NaN when there is no such p
AqiOfP(ps, k) == IF k = 0 THEN NaN ELSE ParseInt(Trim(ps[k].text))

AqiOfLabelDiv(kids, d) ==
    IF d = 0 THEN NaN ELSE AqiOfP(kids[d].ps, FirstIdx(kids[d].ps, PlausibleAqi))

AqiNearLabel(kids) == AqiOfLabelDiv(kids, FirstIdx(kids, HasAqiLabel))

\* strategy 2: Math.max of the plausible numbers of the card; NaN when there is none
AqiMaxNumber(kids) ==
    LET ps == CardPs(kids)
        nums == {ParseInt(Trim(ps[i].text)).val : i \in {j \in 1..Len(ps) : PlausibleAqi(ps[j])}}
    IN  IF nums = {} THEN NaN
        ELSE Num(CHOOSE m \in nums : \A n \in nums : n <= m)

\* length of the longest prefix of s made of characters of cs
RECURSIVE SpanOf(_, _)
SpanOf(s, cs) ==
    IF s # "" /\ IndexOf(cs, CharAt(s, 1)) > 0 THEN 1 + SpanOf(Slice(s, 2), cs) ELSE 0

\* /(?:AQI|US AQI)[\s:]*(\d{1,3})/i matched at position i of s
DigitAfterSeparators(after) ==
    IsDigit(CharAt(after, SpanOf(after, " \t\n:") + 1))

AqiPatternAt(s, i) ==
    /\ i + 2 <= Len(s)
    /\ ToLowerCase(SubSeq(s, i, i + 2)) = "aqi"
    /\ DigitAfterSeparators(Slice(s, i + 3))

\* strategy 3: the capture of the leftmost match in the card text; NaN without match
RECURSIVE FirstAqiPattern(_, _)
FirstAqiPattern(text, k) ==
    IF k > Len(text) THEN 0
    ELSE IF AqiPatternAt(text, k) THEN k
    ELSE FirstAqiPattern(text, k + 1)

\* the capture (\d{1,3}) at the start of rest
AqiCapture(rest) == ParseInt(SubSeq(rest, 1, Min(3, SpanOf(rest, Digits))))

AqiAfterLabel(after) == AqiCapture(Slice(after, SpanOf(after, " \t\n:") + 1))

AqiMatchAt(text, i) == IF i > 0 THEN AqiAfterLabel(Slice(text, i + 3)) ELSE NaN

AqiByRegex(text) == AqiMatchAt(text, FirstAqiPattern(text, 1))

\* the AQI of the details: baseInfo.aqi || 0, then strategies 1, 2 and 3
\* strategy 1 overrides the base value whenever it finds a number
AqiOverride(aqi, num) == IF num.nan THEN aqi ELSE num.val

\* strategies 2 and 3 run under "if (!aqi || aqi === 0)"
AqiIfMissing(aqi, num) == IF aqi = 0 /\ ~num.nan THEN num.val ELSE aqi

ExtractAqi(kids, baseAqi) ==
    AqiIfMissing(AqiIfMissing(AqiOverride(baseAqi, AqiNearLabel(kids)),
                              AqiMaxNumber(kids)),
                 AqiByRegex(CardText(kids)))

LevelWords == {"good", "moderate", "unhealthy", "hazardous", "sensitive"}

\* the level label: p.font-body-l-medium, else the first p with a level word
ExtractLevel(kids) ==
    LET ps == CardPs(kids)
        Emphasized(p) == HasClass(p.cls, "font-body-l-medium")
        HasLevelWord(p) == \E w \in LevelWords : Includes(ToLowerCase(Trim(p.text)), w)
        e == FirstIdx(ps, Emphasized)
        w == FirstIdx(ps, HasLevelWord)
        first == IF e = 0 THEN "" ELSE Trim(ps[e].text)
    IN  IF first # "" THEN first
        ELSE IF w = 0 THEN "" ELSE Trim(ps[w].text)

\* length of the match of \d+\.?\d* at the start of s, 0 when it does not match
NumberPrefix(s) ==
    LET d1 == SpanOf(s, Digits)
        dot == IF d1 > 0 /\ StartsWith(Slice(s, d1 + 1), ".") THEN 1 ELSE 0
        d2 == SpanOf(Slice(s, d1 + dot + 1), Digits)
    IN  IF d1 = 0 THEN 0 ELSE d1 + dot + d2

\* s starts with p, ignoring case (p is given in lower case)
StartsWithNoCase(s, p) == Len(p) <= Len(s) /\ ToLowerCase(SubSeq(s, 1, Len(p))) = p

\* text.match(/^\d+\.?\d*\s*(ug|mg)/i)
ValueShaped(text) ==
    LET n == NumberPrefix(text)
        rest == TrimStart(Slice(text, n + 1))
    IN  n > 0 /\ (StartsWithNoCase(rest, "ug") \/ StartsWithNoCase(rest, "mg"))

MainUnits == <<"ug/m3", "ug", "mg/m3">>
PollutantUnits == <<"ug/m3", "ug", "mg/m3", "ppm", "ppb">>

\* the alternative of units matched at the start of s (the first in order), 0 if none
UnitAt(s, units) ==
    IF \E u \in 1..Len(units) : StartsWithNoCase(s, units[u])
    THEN CHOOSE u \in 1..Len(units) :
             StartsWithNoCase(s, units[u]) /\ \A v \in 1..(u - 1) : ~StartsWithNoCase(s, units[v])
    ELSE 0

\* /(\d+\.?\d*)\s*(unit|...)/i matched at position i of s
ValueUnitAt(s, i, units) ==
    LET n == NumberPrefix(Slice(s, i))
    IN  n > 0 /\ UnitAt(TrimStart(Slice(s, i + n)), units) > 0

\* s.match(/(\d+\.?\d*)\s*(unit|...)/i): the two captures of the leftmost match
NoMatch == [ok |-> FALSE, num |-> "", unit |-> ""]

\* the position of the leftmost match from k on, 0 if none
RECURSIVE FirstValueUnit(_, _, _)
FirstValueUnit(s, k, units) ==
    IF k > Len(s) THEN 0
    ELSE IF ValueUnitAt(s, k, units) THEN k
    ELSE FirstValueUnit(s, k + 1, units)

\* the captures of a match: the number and the unit that starts rest
Captures(num, rest, units) ==
    [ok |-> TRUE, num |-> num, unit |-> SubSeq(rest, 1, Len(units[UnitAt(rest, units)]))]

\* the match at position i whose number has n characters
CapturesAt(s, i, n, units) ==
    Captures(SubSeq(s, i, i + n - 1), TrimStart(Slice(s, i + n)), units)

MatchAt(s, i, units) ==
    IF i > 0 THEN CapturesAt(s, i, NumberPrefix(Slice(s, i)), units) ELSE NoMatch

MatchValueUnit(s, units) == MatchAt(s, FirstValueUnit(s, 1, units), units)

MainLabel == "main pollutant"

NameChars == UpperLetters \o LowerLetters \o Digits \o "."

\* /Main pollutant[:\s]+([A-Z0-9.]+)/i matched at position i of s
MainNameAt(s, i) ==
    LET after == Slice(s, i + Len(MainLabel))
        sep == SpanOf(after, ": \t\n")
    IN  /\ i + Len(MainLabel) - 1 <= Len(s)
        /\ ToLowerCase(SubSeq(s, i, i + Len(MainLabel) - 1)) = MainLabel
        /\ sep > 0
        /\ SpanOf(Slice(after, sep + 1), NameChars) > 0

\* the mainName / mainValue / mainUnit triple of the extractor
MainState(name, value, unit) == [name |-> name, value |-> value, unit |-> unit]

\* !mainValue: 0 and NaN are falsy
Falsy(v) == v.nan \/ v.val = 0

\* strategy 1: the div.font-body-m-medium whose text has "Main pollutant"
IsMainRow(kid) ==
    HasClass(kid.cls, "font-body-m-medium") /\ Includes(KidText(kid), "Main pollutant")

\* a short text that is neither the label nor a value: the name
NameShaped(text) ==
    /\ text # ""
    /\ ~Includes(ToLowerCase(text), MainLabel)
    /\ ~ValueShaped(text)
    /\ Len(text) < 20

IsNameP(p) == NameShaped(Trim(p.text))

ValueText(text) == text # "" /\ ValueShaped(text)

IsValueP(p) == ValueText(Trim(p.text))

\* mainName after the row: the text of the n-th p, unchanged when n = 0
NameOfRow(ps, n, m) == IF n = 0 THEN m.name ELSE Trim(ps[n].text)

UnitOrDefault(unit) == IF unit = "" THEN DefaultUnit ELSE unit

\* the value p split on spaces: the number, then the unit
MainOfWords(name, words) ==
    MainState(name, ParseFloat(ReplaceFirst(words[1], ",", ".")),
              UnitOrDefault(Join(Tail(words), " ")))

\* no value p: the pattern on the text of the row
MainOfRowText(name, rowMatch, m) ==
    IF rowMatch.ok
    THEN MainState(name, ParseFloat(ReplaceFirst(rowMatch.num, ",", ".")),
                   UnitOrDefault(rowMatch.unit))
    ELSE MainState(name, m.value, m.unit)

MainOfRow(kid, name, v, m) ==
    IF v > 0 THEN MainOfWords(name, SplitSpaces(Trim(kid.ps[v].text)))
    ELSE MainOfRowText(name, MatchValueUnit(KidText(kid), MainUnits), m)

MainFromKid(kid, m) ==
    MainOfRow(kid, NameOfRow(kid.ps, FirstIdx(kid.ps, IsNameP), m),
              FirstIdx(kid.ps, IsValueP), m)

MainAt(kids, r, m) == IF r = 0 THEN m ELSE MainFromKid(kids[r], m)

MainFromRow(kids, m) == MainAt(kids, FirstIdx(kids, IsMainRow), m)

\* strategy 2: patterns on the text of the whole card
RECURSIVE FirstMainName(_, _)
FirstMainName(s, k) ==
    IF k > Len(s) THEN 0
    ELSE IF MainNameAt(s, k) THEN k
    ELSE FirstMainName(s, k + 1)

\* "Main pollutant" at position k of s, ignoring case
HasLabelAt(s, k) ==
    /\ k + Len(MainLabel) - 1 <= Len(s)
    /\ ToLowerCase(SubSeq(s, k, k + Len(MainLabel) - 1)) = MainLabel

RECURSIVE FirstMainLabel(_, _)
FirstMainLabel(s, k) ==
    IF k > Len(s) THEN 0
    ELSE IF HasLabelAt(s, k) THEN k
    ELSE FirstMainLabel(s, k + 1)

\* the capture ([A-Z0-9.]+) at the start of nameFrom
NameCapture(nameFrom) == SubSeq(nameFrom, 1, SpanOf(nameFrom, NameChars))

NameAfterLabel(after) == NameCapture(Slice(after, SpanOf(after, ": \t\n") + 1))

CardName(allText, i, m) ==
    IF i > 0 THEN NameAfterLabel(Slice(allText, i + Len(MainLabel))) ELSE m.name

\* /Main pollutant[^]*?(\d+\.?\d*)\s*(...)/i : the first value after the first label
CardValueMatch(allText, l) ==
    IF l > 0 THEN MatchValueUnit(Slice(allText, l + Len(MainLabel)), MainUnits) ELSE NoMatch

MainOfCardText(name, vm, m) ==
    MainState(name,
              IF vm.ok THEN ParseFloat(ReplaceFirst(vm.num, ",", ".")) ELSE m.value,
              IF vm.ok THEN UnitOrDefault(vm.unit) ELSE m.unit)

MainFromText(allText, m) ==
    IF (m.name = "" \/ Falsy(m.value)) /\ Includes(allText, "Main pollutant")
    THEN MainOfCardText(CardName(allText, FirstMainName(allText, 1), m),
                        CardValueMatch(allText, FirstMainLabel(allText, 1)), m)
    ELSE m

MainFromCardText(kids, m) == MainFromText(CardText(kids), m)

\* the last fallback: the first pollutant of the table, else "PM2.5" / 0 / default unit
MainFallback(pollutants, m) ==
    IF m.name = "" \/ Falsy(m.value)
    THEN IF Len(pollutants) > 0
         THEN MainState(IF m.name = "" THEN pollutants[1].name ELSE m.name,
                        IF Falsy(m.value) THEN pollutants[1].value ELSE m.value,
                        IF m.unit = "" THEN pollutants[1].unit ELSE m.unit)
         ELSE MainState(IF m.name = "" THEN "PM2.5" ELSE m.name,
                        IF Falsy(m.value) THEN Num(0) ELSE m.value,
                        IF m.unit = "" THEN DefaultUnit ELSE m.unit)
    ELSE m

-----------------------------------------------------------------------------
(* The pollutants table.  For a "tbody tr" the selectors return            *)
(*   hasBtn      the row has a button                                      *)
(*   hasDiv      the button has a div (the name block)                     *)
(*   nameText    the text of the name block itself                         *)
(*   hasDesc     the name block has a nested div.text-gray-500             *)
(*   desc        the text of that nested div                               *)
(*   spans       the texts of the span.font-body-m-medium of the button    *)
(*   spansInside the spans are inside the name block                       *)
(*   otherText   the rest of the button's text                             *)
(*   extra       the text of the row outside the button                    *)

PollutantCodes == <<"PM2.5", "PM10", "O3", "NO2", "SO2", "CO">>

NameBlockText(row) ==
    row.nameText \o (IF row.hasDesc THEN row.desc ELSE "")
                 \o (IF row.spansInside THEN Join(row.spans, "") ELSE "")

ButtonText(row) ==
    NameBlockText(row) \o (IF row.spansInside THEN "" ELSE Join(row.spans, "")) \o row.otherText

RowText(row) == (IF row.hasBtn THEN ButtonText(row) ELSE "") \o row.extra

\* btn.find("div").has("div.text-gray-500").first(), else the first div whose
\* text names a pollutant code
NamesCode(text) ==
    text # "" /\ \E c \in 1..Len(PollutantCodes) : Includes(text, PollutantCodes[c])

HasNameDiv(row) ==
    row.hasDiv /\ (row.hasDesc \/ NamesCode(Trim(NameBlockText(row))))

\* the code of /(PM2\.5|PM10|O3|NO2|SO2|CO)/ matched at the start of s, 0 if none
CodeAt(s) ==
    IF \E c \in 1..Len(PollutantCodes) : StartsWith(s, PollutantCodes[c])
    THEN CHOOSE c \in 1..Len(PollutantCodes) :
             StartsWith(s, PollutantCodes[c])
             /\ \A d \in 1..(c - 1) : ~StartsWith(s, PollutantCodes[d])
    ELSE 0

\* name.match(/(PM2\.5|PM10|O3|NO2|SO2|CO)/): the leftmost match, "" when null
RECURSIVE FirstCode(_, _)
FirstCode(name, k) ==
    IF k > Len(name) THEN 0
    ELSE IF CodeAt(Slice(name, k)) > 0 THEN k
    ELSE FirstCode(name, k + 1)

CodeFrom(name, i) == IF i > 0 THEN PollutantCodes[CodeAt(Slice(name, i))] ELSE ""

MatchCode(name) == CodeFrom(name, FirstCode(name, 1))

\* the short name of the row
\* the code in a long name, else its first word
ShortName(name, code) == IF code # "" THEN code ELSE SplitSpaces(name)[1]

ShortenName(name) == IF Len(name) > 10 THEN ShortName(name, MatchCode(name)) ELSE name

PollutantName(row) ==
    ShortenName(Trim(ReplaceFirst(Trim(NameBlockText(row)),
                                  IF row.hasDesc THEN Trim(row.desc) ELSE "", "")))

\* the value and the unit of the row: two spans, else the button text, else the row text
\* the value and the unit read from the captures of a match
ValueOfMatch(m) ==
    [value |-> ParseFloat(ReplaceFirst(m.num, ",", ".")),
     unit |-> IF m.unit = "" THEN DefaultUnit ELSE m.unit]

\* the button text match, else the row text match, else 0 and the default unit
ValueFromText(btnMatch, rowMatch) ==
    IF btnMatch.ok THEN ValueOfMatch(btnMatch)
    ELSE IF rowMatch.ok THEN ValueOfMatch(rowMatch)
    ELSE [value |-> Num(0), unit |-> DefaultUnit]

\* the two spans: the value text and the unit text
ValueFromSpans(valueText, unitText) ==
    [value |-> ParseFloat(ReplaceFirst(valueText, ",", ".")),
     unit |-> IF unitText = "" THEN DefaultUnit ELSE unitText]

PollutantValue(row) ==
    IF Len(row.spans) >= 2
    THEN ValueFromSpans(Trim(row.spans[1]), Trim(row.spans[2]))
    ELSE ValueFromText(MatchValueUnit(ButtonText(row), PollutantUnits),
                       MatchValueUnit(RowText(row), PollutantUnits))

\* variant: only rows without a name are dropped
RowDroppedNoValueCheck(row, name, value) ==
    \/ ~row.hasBtn
    \/ ~HasNameDiv(row)
    \/ name = ""

\* the early returns of the row callback
RowDropped(row, name, value) ==
    \/ ~row.hasBtn
    \/ ~HasNameDiv(row)
    \/ name = ""
    \/ value.nan
    \/ value.val = 0

\* pollutants.push({...}) unless the row is dropped
RowEntry(row, name, pv) ==
    IF RowDropped(row, name, pv.value) THEN << >>
    ELSE << [name |-> name,
             description |-> IF row.hasDesc THEN Trim(row.desc) ELSE "",
             value |-> pv.value,
             unit |-> pv.unit] >>

\* pollutantsTable.find("tbody tr").each(...)
RECURSIVE EachPollutantRow(_)
EachPollutantRow(rows) ==
    IF rows = << >> THEN << >>
    ELSE RowEntry(Head(rows), PollutantName(Head(rows)), PollutantValue(Head(rows)))
         \o EachPollutantRow(Tail(rows))

\* the "tbody tr" of the selected tables, in document order
RECURSIVE RowsOf(_)
RowsOf(tables) ==
    IF tables = << >> THEN << >> ELSE Head(tables).rows \o RowsOf(Tail(tables))

\* $('table[title="Air pollutants"]'), else the tables whose title mentions "pollutant"
PollutantRows(tables) ==
    LET Exact(t) == t.title = "Air pollutants"
        Loose(t) == t.title # "" /\ Includes(ToLowerCase(t.title), "pollutant")
    IN  IF \E i \in 1..Len(tables) : Exact(tables[i])
        THEN RowsOf(SelectSeq(tables, Exact)) ELSE RowsOf(SelectSeq(tables, Loose))

\* variant: a missing level label is fatal too
ExtractableStrict(page) == AqiCard(page.divs) > 0 /\ ExtractLevel(page.divs[AqiCard(page.divs)].kids) # ""

\* the extraction goes on past "AQI main card not found"
Extractable(page) == AqiCard(page.divs) > 0

\* the record returned for a page with a card
DetailsRecord(base, kids, pollutants) ==
    [rank |-> base.rank,
     city |-> base.city,
     countrySlug |-> base.countrySlug,
     url |-> base.url,
     aqi |-> ExtractAqi(kids, base.aqi),
     level |-> ExtractLevel(kids),
     mainPollutant |->
         MainFallback(pollutants,
                      MainFromCardText(kids,
                                       MainFromRow(kids, MainState("", Num(0), DefaultUnit)))),
     pollutants |-> pollutants]

ExtractDetails(page, base) ==
    DetailsRecord(base, page.divs[AqiCard(page.divs)].kids,
                  EachPollutantRow(PollutantRows(page.tables)))

\* "if (!baseInfo) return null", else goes on to fetch the page
DetailStart ==
    /\ pc = "detail_start"
    /\ IF baseInfo = << >>
       THEN IF entry = "details"
            THEN pc' = "done" /\ outcome' = "null"
            ELSE pc' = "check_data" /\ UNCHANGED outcome
       ELSE pc' = "detail_fetch" /\ UNCHANGED outcome
    /\ UNCHANGED <<city, level, color, entry, err, requests, limit, rankResp, topCities, cityName, searchResp,
                   searchResults, found, baseInfo, detailResp, details>>

DetailFetch ==
    /\ pc = "detail_fetch"
    /\ requests' = Append(requests, "detail")
    /\ IF detailResp.ok
       THEN /\ pc' = "extract"
            /\ UNCHANGED <<outcome, err>>
       ELSE /\ pc' = "done"
            /\ outcome' = "error"
            /\ err' = "IQAir city HTML fetch failed"
    /\ UNCHANGED <<city, level, color, entry, limit, rankResp, topCities, cityName, searchResp,
                   searchResults, found, baseInfo, detailResp, details>>

Extract ==
    /\ pc = "extract"
    /\ IF ~Extractable(detailResp.page)
       THEN /\ outcome' = "error"
            /\ err' = "IQAir HTML structure: AQI main card not found"
            /\ UNCHANGED details
       ELSE /\ outcome' = "ok"
            /\ details' = <<ExtractDetails(detailResp.page, baseInfo[1])>>
            /\ UNCHANGED err
    /\ pc' = "done"
    /\ UNCHANGED <<city, level, color, entry, requests, limit, rankResp, topCities, cityName, searchResp,
                   searchResults, found, baseInfo, detailResp>>

-----------------------------------------------------------------------------
(* Explored inputs of fetchIQAirCityDetailsByName *)

P(cls, text) == [cls |-> cls, text |-> text]

KidSet ==
    { [cls |-> "aqi-value", ps |-> <<P("", "US AQI"), P("font-bold", " 152 ")>>],
      [cls |-> "", ps |-> <<P("", "87")>>],
      [cls |-> "", ps |-> <<P("", "AQI: 57")>>],
      [cls |-> "", ps |-> <<P("font-body-l-medium", " Unhealthy ")>>],
      [cls |-> "", ps |-> <<P("text-sm", "Moderate")>>],
      [cls |-> "flex font-body-m-medium",
       ps |-> <<P("", "Main pollutant:"), P("", "PM2.5"), P("", "80.5 ug/m3")>>],
      [cls |-> "font-body-m-medium", ps |-> <<P("", "Main pollutant: PM10")>>] }

PollRow(nameText, hasDesc, desc, spans, spansInside, otherText, extra) ==
    [hasBtn |-> TRUE, hasDiv |-> TRUE, nameText |-> nameText, hasDesc |-> hasDesc,
     desc |-> desc, spans |-> spans, spansInside |-> spansInside,
     otherText |-> otherText, extra |-> extra]

RowFine == PollRow("PM2.5", TRUE, " Fine particles ", <<"80.5", "ug/m3">>, TRUE, "", "")
RowOzone == PollRow("O3", TRUE, "Ozone", << >>, FALSE, "12 ppb", "")
RowZero == PollRow("SO2", FALSE, "", <<"0.0", "ug/m3">>, FALSE, "", "")
RowNoNumber == PollRow("PM2.5", FALSE, "", << >>, FALSE, " -- ug/m3", "")
RowNegative == PollRow("CO", FALSE, "", <<"-3,5", "ppm">>, FALSE, "", "")
RowNoButton ==
    [hasBtn |-> FALSE, hasDiv |-> FALSE, nameText |-> "", hasDesc |-> FALSE,
     desc |-> "", spans |-> << >>, spansInside |-> FALSE,
     otherText |-> "", extra |-> "NO2 40 ug/m3"]
RowCellValue == PollRow("CO", FALSE, "", << >>, FALSE, "", "0.3 ppm")
RowNotANumber == PollRow("NO2", TRUE, "Nitrogen dioxide", <<"n/a", "ug/m3">>, FALSE, "", "")

PollRowSet ==
    { RowFine, RowOzone, RowZero, RowNoNumber, RowNegative, RowNoButton,
      RowCellValue, RowNotANumber }

Table(title, rows) == [title |-> title, rows |-> rows]

SmallTables ==
    { << >>,
      << Table("Air pollutants", <<RowOzone, RowFine>>) >>,
      << Table("Main Pollutants today", <<RowFine>>) >>,
      << Table("Main Pollutants today", <<RowFine>>), Table("Air pollutants", <<RowNegative>>) >>,
      << Table("", <<RowFine>>) >> }

SmallCards ==
    { << >>,
      << [cls |-> "aqi-value", ps |-> <<P("", "US AQI"), P("font-bold", " 152 ")>>] >>,
      << [cls |-> "font-body-m-medium", ps |-> <<P("", "Main pollutant: PM10")>>] >> }

Card(cls, kids) == [cls |-> cls, kids |-> kids]

OtherDivs ==
    { << >>,
      << Card("header", << >>) >>,
      << Card("aqi-box", << [cls |-> "", ps |-> <<P("", "87")>>] >>) >>,
      << Card("header", << >>),
         Card("card aqi-bg-red", << [cls |-> "", ps |-> <<P("", "87")>>] >>),
         Card("aqi-box-shadow", << >>) >> }

DetailPages ==
    {[divs |-> << Card("aqi-box-shadow rounded", kids) >>, tables |-> t] :
        kids \in SeqsUpTo(KidSet, MaxCardDivs), t \in SmallTables}
    \cup {[divs |-> << Card("aqi-box-shadow rounded", kids) >>,
           tables |-> << Table("Air pollutants", rows) >>] :
        kids \in SmallCards, rows \in SeqsUpTo(PollRowSet, MaxPollRows)}
    \cup {[divs |-> d, tables |-> << Table("Air pollutants", <<RowFine>>) >>] : d \in OtherDivs}

CityPath == "/uzbekistan/toshkent-shahri/tashkent"

DetailSearchResps ==
    { [ok |-> TRUE, json |-> TRUE, data |-> <<StrItem(CityPath)>>],
      [ok |-> TRUE, json |-> TRUE, data |-> <<NumItem(57), BoolItem(FALSE), StrItem(CityPath)>>] }

InitDetail ==
    /\ InitCommon
    /\ entry = "details"
    /\ pc = "resolve_start"
    /\ limit = 0
    /\ rankResp = NoResp
    /\ \/ /\ cityName = "tashkent"
          /\ searchResp \in DetailSearchResps
          /\ detailResp \in {NoDetailResp} \cup {[ok |-> TRUE, page |-> pg] : pg \in DetailPages}
       \/ /\ cityName \in {"tashkent", " "}
          /\ searchResp \in {NoSearchResp, BadJsonResp, [ok |-> TRUE, json |-> TRUE, data |-> << >>]}
          /\ detailResp = NoDetailResp

NextDetail ==
    \/ ResolveStart \/ SearchStart \/ SearchFetch \/ SearchParse \/ Match
    \/ DetailStart \/ DetailFetch \/ Extract

SpecDetail == InitDetail /\ [][NextDetail]_vars

-----------------------------------------------------------------------------
(* fetchIQAirCityDetails (src/iqair.tsx) *)

\* variant: a whitespace-only name is kept
TargetCityNoTrim(c) == IF c # << >> /\ c[1] # "" THEN c ELSE << >>

\* city && city.trim() ? city : null
TargetCity(c) == IF c # << >> /\ Trim(c[1]) # "" THEN c ELSE << >>

\* with a name the name is looked up; without one the ranking is fetched with limit 1
CommandStart ==
    /\ pc = "command_start"
    /\ IF TargetCity(city) # << >>
       THEN /\ cityName' = TargetCity(city)[1]
            /\ pc' = "resolve_start"
            /\ UNCHANGED limit
       ELSE /\ limit' = 1
            /\ pc' = "top_fetch"
            /\ UNCHANGED cityName
    /\ UNCHANGED <<city, level, color, entry, outcome, err, requests, rankResp, topCities,
                   searchResp, searchResults, found, baseInfo, detailResp, details>>

\* "if (!top.length) throw", else targetCity = top[0].city
PickTop ==
    /\ pc = "pick_top"
    /\ IF Len(topCities) = 0
       THEN /\ pc' = "done"
            /\ outcome' = "error"
            /\ err' = "IQAir top list is empty"
            /\ UNCHANGED cityName
       ELSE /\ cityName' = topCities[1].city
            /\ pc' = "resolve_start"
            /\ UNCHANGED <<outcome, err>>
    /\ UNCHANGED <<city, level, color, entry, requests, limit, rankResp, topCities,
                   searchResp, searchResults, found, baseInfo, detailResp, details>>

\* "if (!data) throw": fetchIQAirCityDetailsByName returned null
NotFound ==
    /\ pc = "check_data"
    /\ pc' = "done"
    /\ outcome' = "error"
    /\ err' = "City not found in IQAir database"
    /\ UNCHANGED <<city, level, color, entry, requests, limit, rankResp, topCities, cityName,
                   searchResp, searchResults, found, baseInfo, detailResp, details>>

\* explored calls of fetchIQAirCityDetails
CommandCities == { << >>, <<"">>, <<"  ">>, <<"tashkent">>, <<" Oslo ">> }

CommandRankings ==
    { NoResp,
      [ok |-> TRUE, tables |-> << >>],
      [ok |-> TRUE, tables |-> << [headRows |-> GoodHead,
                                   rows |-> << [th |-> "1", ntd |-> 2, city |-> "Kabul",
                                                aqi |-> "n/a", href |-> "/us/afghanistan/kabul"] >>] >>],
      [ok |-> TRUE, tables |-> << [headRows |-> GoodHead,
                                   rows |-> << [th |-> "1", ntd |-> 2, city |-> " Tashkent ",
                                                aqi |-> "152", href |-> "/us/uzbekistan/tashkent"],
                                               [th |-> "2", ntd |-> 2, city |-> "Lahore",
                                                aqi |-> "140", href |-> "/us/pakistan/punjab/lahore"] >>] >>],
      [ok |-> TRUE, tables |-> << [headRows |-> GoodHead, rows |-> OneRow] >>] }

CommandSearches ==
    { NoSearchResp,
      BadJsonResp,
      [ok |-> FALSE, json |-> TRUE, data |-> <<StrItem(CityPath)>>],
      [ok |-> TRUE, json |-> TRUE, data |-> << >>],
      [ok |-> TRUE, json |-> TRUE, data |-> <<NumItem(150), NullItem>>],
      [ok |-> TRUE, json |-> TRUE, data |-> <<StrItem(CityPath)>>],
      [ok |-> TRUE, json |-> TRUE, data |-> <<NumItem(57), BoolItem(FALSE), StrItem(CityPath)>>] }

CommandDetails ==
    { NoDetailResp,
      [ok |-> TRUE, page |-> [divs |-> << >>, tables |-> << >>]],
      [ok |-> TRUE, page |-> [divs |-> << Card("header", << >>) >>,
                              tables |-> << Table("Air pollutants", <<RowFine>>) >>]],
      [ok |-> TRUE, page |-> [divs |-> << Card("aqi-box-shadow", << >>) >>, tables |-> << >>]],
      [ok |-> TRUE, page |-> [divs |-> << Card("card aqi-bg-red", << [cls |-> "", ps |-> <<P("", "87")>>] >>) >>,
                              tables |-> << Table("Air pollutants", <<RowOzone, RowFine>>) >>]] }

InitCommand ==
    /\ level = ""
    /\ color = ""
    /\ entry = "command"
    /\ pc = "command_start"
    /\ outcome = "pending"
    /\ err = ""
    /\ requests = << >>
    /\ limit = 0
    /\ topCities = << >>
    /\ cityName = ""
    /\ searchResults = << >>
    /\ found = << >>
    /\ baseInfo = << >>
    /\ details = << >>
    /\ city \in CommandCities
    /\ rankResp \in CommandRankings
    /\ searchResp \in CommandSearches
    /\ detailResp \in CommandDetails

NextCommand ==
    \/ CommandStart \/ TopFetch \/ TopParse \/ PickTop
    \/ ResolveStart \/ SearchStart \/ SearchFetch \/ SearchParse \/ Match
    \/ DetailStart \/ DetailFetch \/ Extract \/ NotFound

SpecCommand == InitCommand /\ [][NextCommand]_vars

-----------------------------------------------------------------------------
(* getAQILevelColor (src/iqair.tsx) *)

getAQILevelColor(lvl) ==
    LET levelLower == ToLowerCase(lvl)
    IN  IF Includes(levelLower, "good") \/ Includes(levelLower, "excellent") THEN "Green"
        ELSE IF Includes(levelLower, "moderate") \/ Includes(levelLower, "fair") THEN "Yellow"
        ELSE IF Includes(levelLower, "unhealthy for sensitive") \/ Includes(levelLower, "sensitive")
        THEN "Orange"
        ELSE IF Includes(levelLower, "unhealthy") THEN "Red"
        ELSE IF Includes(levelLower, "very unhealthy") \/ Includes(levelLower, "hazardous")
        THEN "Purple"
        ELSE "SecondaryText"

\* one call of getAQILevelColor on the level of the record shown
GetColor ==
    /\ pc = "color_start"
    /\ color' = getAQILevelColor(level)
    /\ pc' = "done"
    /\ UNCHANGED <<city, level, entry, outcome, err, requests, limit, rankResp, topCities, cityName,
                   searchResp, searchResults, found, baseInfo, detailResp, details>>

ColorPrefixes == { "", "Very ", "very ", "Not ", "AQI: " }

ColorWords ==
    { "", "Good", "Excellent", "Moderate", "Fair", "Unhealthy",
      "Unhealthy for Sensitive Groups", "Sensitive", "Hazardous", "HAZARDOUS", "Unknown" }

ColorSuffixes == { "", " air", " (hazardous soon)" }

Levels == { a \o w \o z : a \in ColorPrefixes, w \in ColorWords, z \in ColorSuffixes }

InitColor ==
    /\ city = << >>
    /\ color = ""
    /\ entry = "color"
    /\ pc = "color_start"
    /\ outcome = "pending"
    /\ err = ""
    /\ requests = << >>
    /\ limit = 0
    /\ rankResp = NoResp
    /\ topCities = << >>
    /\ cityName = ""
    /\ searchResp = NoSearchResp
    /\ searchResults = << >>
    /\ found = << >>
    /\ baseInfo = << >>
    /\ detailResp = NoDetailResp
    /\ details = << >>
    /\ level \in Levels

NextColor == GetColor

SpecColor == InitColor /\ [][NextColor]_vars

-----------------------------------------------------------------------------
(* Properties of the City Resolver *)

ResolveDone == entry = "resolve" /\ pc = "done"

SegCount(url) == Len(FilterBoolean(Split(url, "/")))

\* c is a record named exactly as the trimmed, lowercased query, with 3 path segments
ExactCity(c) ==
    ToLowerCase(c.name) = ToLowerCase(Trim(cityName)) /\ SegCount(c.url) = 3

\* C2: when the candidates contain an exact-name record with a 3-segment URL,
\* the resolver returns such a record, whatever else the list holds.
C2_ExactThreeSegmentWins ==
    (ResolveDone /\ \E i \in 1..Len(searchResults) : ExactCity(searchResults[i])) =>
        /\ outcome = "ok"
        /\ Len(found) = 1 /\ ExactCity(found[1])
        /\ Len(baseInfo) = 1
        /\ baseInfo[1].city = found[1].name
        /\ baseInfo[1].url = Origin \o "/us" \o found[1].url

\* the exact city is returned although a substring 3-segment record is first
\* in the list and an exact 2-segment record is present
C2_Witness ==
    /\ ResolveDone /\ outcome = "ok"
    /\ Len(found) = 1 /\ ExactCity(found[1])
    /\ found[1] # searchResults[1]
    /\ \E i \in 1..Len(searchResults) :
          /\ ToLowerCase(searchResults[i].name) = ToLowerCase(Trim(cityName))
          /\ SegCount(searchResults[i].url) = 2

\* C3: for a non-empty name and a successful search call the resolver returns
\* null exactly when there are zero candidates, never an error; with candidates
\* it returns a record, the first of the sorted list when no tier matches.
C3_NullIffNoCandidates ==
    (ResolveDone /\ Trim(cityName) # "" /\ searchResp.ok /\ searchResp.json) =>
        /\ outcome \in {"null", "ok"}
        /\ err = ""
        /\ (outcome = "null") <=> (searchResults = << >>)
        /\ (outcome = "null") => baseInfo = << >>
        /\ (outcome = "ok") => Len(baseInfo) = 1 /\ Len(found) = 1
        /\ (/\ outcome = "ok"
            /\ \A t \in 1..NumFinds :
                  \A i \in 1..Len(searchResults) :
                      ~TierHit(t, searchResults[i], ToLowerCase(Trim(cityName))))
              => found[1] = searchResults[1]

\* no tier matches among several candidates and the first one is returned
C3_Witness ==
    /\ ResolveDone /\ outcome = "ok"
    /\ Len(searchResults) >= 2
    /\ searchResults[1] # searchResults[Len(searchResults)]
    /\ \A i \in 1..Len(searchResults) :
          ~Includes(ToLowerCase(searchResults[i].name), "delhi")
    /\ cityName = "delhi"
    /\ found[1] = searchResults[1]

\* the null case is reached as well
C3_NullReached == ResolveDone /\ outcome = "null" /\ Len(searchResp.data) >= 1

\* C4: an empty or whitespace-only name fails with the validation error and no
\* outbound request is issued in that call.
C4_EmptyNameNoRequest ==
    (entry = "resolve" /\ Trim(cityName) = "") =>
        /\ requests = << >>
        /\ pc = "done" => (outcome = "error" /\ err = "City name is required")

C4_Witness ==
    /\ ResolveDone /\ cityName = "  " /\ outcome = "error" /\ requests = << >>

-----------------------------------------------------------------------------
(* Properties of the Reconstructor *)

\* C6: in the returned sequence no 2-segment record precedes a 3-segment
\* record, and among records of equal segment count followersCount is
\* non-increasing.
C6_SortedResults ==
    \A i, j \in 1..Len(searchResults) :
        i < j =>
            /\ ~(SegCount(searchResults[i].url) = 2 /\ SegCount(searchResults[j].url) = 3)
            /\ SegCount(searchResults[i].url) = SegCount(searchResults[j].url)
                  => searchResults[i].followersCount >= searchResults[j].followersCount

\* array positions of the records of the result, by url
PosInData(url) == CHOOSE k \in 1..Len(searchResp.data) : searchResp.data[k] = StrItem(url)

\* the sort exchanged two records of equal segment count: the one that comes
\* later in the array has more followers and is returned first
C6_Witness ==
    /\ entry = "search" /\ pc = "done" /\ outcome = "ok"
    /\ Len(searchResults) = 2
    /\ SegCount(searchResults[1].url) = SegCount(searchResults[2].url)
    /\ PosInData(searchResults[2].url) < PosInData(searchResults[1].url)
    /\ searchResults[1].followersCount > searchResults[2].followersCount

\* the sort moved a 3-segment record in front of a 2-segment one that comes
\* first in the array and has more followers
C6_RegionMovedBack ==
    /\ entry = "search" /\ pc = "done" /\ outcome = "ok"
    /\ Len(searchResults) = 2
    /\ SegCount(searchResults[1].url) = 3 /\ SegCount(searchResults[2].url) = 2
    /\ PosInData(searchResults[2].url) < PosInData(searchResults[1].url)
    /\ searchResults[2].followersCount > searchResults[1].followersCount

\* item is a path-shaped string token
PathShaped(item) ==
    /\ item.t = "string"
    /\ Len(item.s) >= 1 /\ SubSeq(item.s, 1, 1) = "/"
    /\ \A k \in 1..Len(item.s) : SubSeq(item.s, k, k) # "."
    /\ SegCount(item.s) \in {2, 3}

\* C7: an array without path-shaped string token yields the empty sequence and
\* no failure.
C7_NoAnchorsNoResults ==
    (/\ entry = "search" /\ pc = "done" /\ Trim(cityName) # ""
     /\ searchResp.ok /\ searchResp.json
     /\ \A k \in 1..Len(searchResp.data) : ~PathShaped(searchResp.data[k])) =>
        outcome = "ok" /\ err = "" /\ searchResults = << >>

\* the array holds near-paths (a file name, a 4-segment path, a 1-segment path) and scalars
C7_Witness ==
    /\ entry = "search" /\ pc = "done" /\ outcome = "ok" /\ searchResults = << >>
    /\ Len(searchResp.data) >= 4
    /\ \E k \in 1..Len(searchResp.data) : searchResp.data[k] = StrItem("/us/usa/texas/austin/station")
    /\ \E k \in 1..Len(searchResp.data) : searchResp.data[k] = StrItem("/static/logo.png")
    /\ \E k \in 1..Len(searchResp.data) : searchResp.data[k].t = "number"
    /\ \E k \in 1..Len(searchResp.data) : searchResp.data[k].t \in {"null", "boolean"}

-----------------------------------------------------------------------------
(* Properties of the Detail Page Extractor *)

\* the call went through resolution and fetched the detail page
DetailsExtracted ==
    entry = "details" /\ pc = "done" /\ Len(baseInfo) = 1 /\ detailResp.ok

AllPollutantRows ==
    {<<t, r>> \in (1..Len(detailResp.page.tables)) \X (1..MaxPollRows + 1) :
        r <= Len(detailResp.page.tables[t].rows)}

\* the text of the row holds a digit other than 0
HasNonZeroDigit(row) ==
    \E k \in 1..Len(RowText(row)) : SubSeq(RowText(row), k, k) \in
        {"1", "2", "3", "4", "5", "6", "7", "8", "9"}

\* C8: every entry of the returned pollutant list has a non-empty name and a
\* value that is a number other than 0; rows without a usable number give no
\* entry, so there are at most as many entries as rows that show a digit.
C8_PollutantEntriesValid ==
    (DetailsExtracted /\ outcome = "ok") =>
        /\ \A i \in 1..Len(details[1].pollutants) :
              /\ details[1].pollutants[i].name # ""
              /\ ~details[1].pollutants[i].value.nan
              /\ details[1].pollutants[i].value.val # 0
        /\ Len(details[1].pollutants) <=
              Cardinality({x \in AllPollutantRows :
                              HasNonZeroDigit(detailResp.page.tables[x[1]].rows[x[2]])})

\* a row with a zero, missing or non-numeric value stands next to a row that is emitted
C8_Witness ==
    /\ DetailsExtracted /\ outcome = "ok"
    /\ Len(detailResp.page.tables) = 1
    /\ Len(detailResp.page.tables[1].rows) = 2
    /\ detailResp.page.tables[1].rows[1] \in {RowZero, RowNoNumber, RowNotANumber}
    /\ Len(details[1].pollutants) = 1

\* some div of the page carries an AQI card class
HasAqiContainer ==
    \E i \in 1..Len(detailResp.page.divs) :
        \/ IndexOf(detailResp.page.divs[i].cls, "aqi-box-shadow") > 0
        \/ IndexOf(detailResp.page.divs[i].cls, "aqi-bg-") > 0

\* C9: with a resolved city and a fetched page the extractor fails exactly when
\* no AQI container is found; with a container it returns a record, with level
\* "" and no pollutants when label, main-pollutant row and table are missing.
C9_FailsIffNoContainer ==
    DetailsExtracted =>
        /\ outcome \in {"ok", "error"}
        /\ (outcome = "error") <=> ~HasAqiContainer
        /\ (outcome = "ok") <=> (Len(details) = 1)
        /\ (/\ HasAqiContainer
            /\ detailResp.page.divs[AqiCard(detailResp.page.divs)].kids = << >>
            /\ detailResp.page.tables = << >>)
              => /\ details[1].level = ""
                 /\ details[1].pollutants = << >>
                 /\ details[1].city = baseInfo[1].city

\* a card without level label, main-pollutant row and table still gives a record
C9_Witness ==
    /\ DetailsExtracted /\ outcome = "ok"
    /\ detailResp.page.tables = << >>
    /\ details[1].level = ""
    /\ details[1].pollutants = << >>
    /\ details[1].mainPollutant.name = "PM2.5"
    /\ details[1].aqi = 57

\* the fatal case is reached as well: a page whose divs are not AQI cards
C9_FatalReached ==
    /\ DetailsExtracted /\ outcome = "error"
    /\ Len(detailResp.page.divs) >= 1

-----------------------------------------------------------------------------
(* Properties of all emitted records *)

\* C10: aqi is never negative in any emitted record (ranking list, search
\* results, resolver record, details) and no pollutant value of a details
\* record (list entries and mainPollutant) is negative.
C10_NeverNegative ==
    /\ \A i \in 1..Len(topCities) : topCities[i].aqi >= 0
    /\ \A i \in 1..Len(searchResults) : searchResults[i].aqi >= 0
    /\ \A i \in 1..Len(baseInfo) : baseInfo[i].aqi >= 0
    /\ \A i \in 1..Len(details) :
          /\ details[i].aqi >= 0
          /\ details[i].mainPollutant.value.val >= 0
          /\ \A k \in 1..Len(details[i].pollutants) :
                details[i].pollutants[k].value.val >= 0

\* the url has a scheme and a host, followed by nothing or by a path that starts with "/"
IsAbsoluteUrl(url) ==
    LET rest == IF StartsWith(url, "https://") THEN Slice(url, 9)
                ELSE IF StartsWith(url, "http://") THEN Slice(url, 8)
                ELSE ""
        slash == IndexOf(rest, "/")
    IN  /\ StartsWith(url, "https://") \/ StartsWith(url, "http://")
        /\ rest # ""
        /\ slash # 1

\* C11: the url of every record of the ranking list, of the resolver and of the
\* details is an absolute URL, whatever href the ranking row carries and
\* whatever anchor path the search payload carries.
C11_UrlsAbsolute ==
    /\ \A i \in 1..Len(topCities) : IsAbsoluteUrl(topCities[i].url)
    /\ \A i \in 1..Len(baseInfo) : IsAbsoluteUrl(baseInfo[i].url)
    /\ \A i \in 1..Len(details) : IsAbsoluteUrl(details[i].url)

-----------------------------------------------------------------------------
(* Properties of the command entry point *)

\* the caller gave no name, an empty name or only whitespace
NoUsableName == city = << >> \/ Trim(city[1]) = ""

Has(seq, x) == \E i \in 1..Len(seq) : seq[i] = x

\* the orders in which one call may issue its requests
RequestOrders ==
    { << >>, <<"ranking">>, <<"ranking", "search">>, <<"ranking", "search", "detail">>,
      <<"search">>, <<"search", "detail">> }

RankingFailed == ~rankResp.ok \/ ValidRowIdx = {}
SearchFailed == ~searchResp.ok \/ ~searchResp.json
DetailFailed == ~detailResp.ok \/ ~HasAqiContainer

\* C12: one call issues its requests in the order ranking, search, detail, each
\* at most once, the ranking request only when no usable city name was given;
\* a request that fails (bad status or unparsable body) is the last request of
\* the call and the call ends in an error.
C12_RequestOrder ==
    /\ requests \in RequestOrders
    /\ Has(requests, "ranking") <=> (NoUsableName /\ pc \notin {"command_start", "top_fetch"})
    /\ (Has(requests, "ranking") /\ RankingFailed)
          => /\ requests = <<"ranking">>
             /\ pc = "done" => outcome = "error"
    /\ (Has(requests, "search") /\ SearchFailed)
          => /\ ~Has(requests, "detail")
             /\ pc = "done" => outcome = "error"
    /\ (Has(requests, "detail") /\ DetailFailed)
          => (pc = "done" => outcome = "error")

C12_Witness ==
    /\ pc = "done" /\ outcome = "error"
    /\ requests = <<"ranking", "search">>
    /\ SearchFailed /\ searchResp.data # << >>

C12_AllThree == pc = "done" /\ outcome = "ok" /\ requests = <<"ranking", "search", "detail">>

\* C13: without a usable city name (absent, empty or whitespace only) the
\* command fetches the ranking with limit 1 and resolves the city of its first
\* record; the call ends with a details record or with an error, never with a
\* null result, and a name the resolver cannot find ends in the not-found error.
C13_TopCityFallback ==
    LET V == ValidRowIdx
        rows == SelectedRows
    IN  /\ (NoUsableName /\ pc \notin {"command_start", "top_fetch"})
              => /\ requests # << >> /\ requests[1] = "ranking"
                 /\ limit = 1
                 /\ topCities # << >> =>
                       /\ Len(topCities) = 1
                       /\ V # {}
                       /\ topCities[1].city = Trim(rows[NthOf(V, 1)].city)
                       /\ pc \notin {"top_parse", "pick_top"} => cityName = topCities[1].city
                 /\ (topCities = << >> /\ pc \notin {"top_parse"})
                       => (pc = "done" /\ outcome = "error" /\ requests = <<"ranking">>)
        /\ ~NoUsableName => (pc # "command_start" => cityName = city[1])
        /\ pc = "done" =>
              /\ outcome \in {"ok", "error"}
              /\ (outcome = "ok") <=> (Len(details) = 1)
              /\ (Has(requests, "search") /\ ~SearchFailed /\ searchResults = << >>)
                    => (outcome = "error" /\ err = "City not found in IQAir database")

C13_Witness ==
    /\ pc = "done" /\ outcome = "ok"
    /\ city \in { <<"">>, <<"  ">> }
    /\ Len(rankResp.tables[1].rows) = 2
    /\ cityName = "Tashkent"
    /\ details[1].city = "Tashkent"

C13_NotFoundReached ==
    /\ pc = "done" /\ err = "City not found in IQAir database"
    /\ city = <<" Oslo ">>

-----------------------------------------------------------------------------
(* Properties of the AQI strategies *)

\* the value the first successful strategy gives, the baseline AQI coming last
FirstSuccess(near, most, byRegex, baseAqi) ==
    IF ~near.nan THEN near.val
    ELSE IF ~most.nan THEN most.val
    ELSE IF ~byRegex.nan THEN byRegex.val
    ELSE baseAqi

\* C14: the AQI of the returned record is the result of the first strategy
\* that succeeds in the order label, maximum plausible number, regex on the
\* container text, baseline AQI; the baseline is used only when the three
\* strategies all fail, also when it is non-zero.
C14_FirstStrategyWins ==
    (DetailsExtracted /\ outcome = "ok") =>
        LET kids == detailResp.page.divs[AqiCard(detailResp.page.divs)].kids
        IN  details[1].aqi = FirstSuccess(AqiNearLabel(kids), AqiMaxNumber(kids),
                                          AqiByRegex(CardText(kids)), baseInfo[1].aqi)

-----------------------------------------------------------------------------
(* Properties of the suffix tiers of the resolver *)

LeastOf(S) == CHOOSE k \in S : \A j \in S : k <= j

\* no candidate relates to the whole query: finds 1 to 6 return undefined
NoneBeforeSuffixTier(results, q) ==
    \A i \in 1..Len(results) :
        /\ ~Includes(ToLowerCase(results[i].name), q)
        /\ ~Includes(q, ToLowerCase(results[i].name))

\* the candidate chosen among the indices S: a 3-segment one first, then any,
\* then the first search result
SuffixChoice(results, S) ==
    LET S3 == {i \in S : UrlParts(results[i]) = 3}
    IN  IF S3 # {} THEN results[LeastOf(S3)]
        ELSE IF S # {} THEN results[LeastOf(S)]
        ELSE results[1]

\* candidates whose lowercased name is contained in the stripped query
InsideStripped(results, q) ==
    {i \in 1..Len(results) : Includes(StripSuffix(q), ToLowerCase(results[i].name))}

\* candidates whose lowercased name contains the stripped query
AroundStripped(results, q) ==
    {i \in 1..Len(results) : Includes(ToLowerCase(results[i].name), StripSuffix(q))}

\* C15 as stated: after finds 1 to 6 found nothing, the candidate taken is the
\* first whose lowercased name is contained in the query stripped of its
\* "city"/"town" suffix, 3-segment URLs first.
C15_AsStated ==
    LET q == ToLowerCase(Trim(cityName))
    IN  (ResolveDone /\ outcome = "ok" /\ NoneBeforeSuffixTier(searchResults, q))
            => found[1] = SuffixChoice(searchResults, InsideStripped(searchResults, q))

\* C15: after finds 1 to 6 found nothing, the candidate taken is the first
\* whose lowercased name equals or contains the query stripped of its
\* "city"/"town" suffix, first among 3-segment URLs, then for any segment
\* count, and the first search result when there is none.
C15_SuffixTierDirection ==
    LET q == ToLowerCase(Trim(cityName))
    IN  (ResolveDone /\ outcome = "ok" /\ NoneBeforeSuffixTier(searchResults, q))
            => found[1] = SuffixChoice(searchResults, AroundStripped(searchResults, q))

C15_Witness ==
    LET q == ToLowerCase(Trim(cityName))
    IN  /\ ResolveDone /\ outcome = "ok"
        /\ NoneBeforeSuffixTier(searchResults, q)
        /\ AroundStripped(searchResults, q) # {}
        /\ UrlParts(found[1]) = 3
        /\ found[1] # searchResults[1]

\* the second suffix find decides: no 3-segment candidate contains the stripped query
C15_AnySegmentReached ==
    LET q == ToLowerCase(Trim(cityName))
    IN  /\ ResolveDone /\ outcome = "ok"
        /\ NoneBeforeSuffixTier(searchResults, q)
        /\ UrlParts(found[1]) # 3
        /\ found[1] # searchResults[1]

-----------------------------------------------------------------------------
(* Properties of the main pollutant *)

\* the card of the fetched page has no "Main pollutant" text at all
NoMainText ==
    LET kids == detailResp.page.divs[AqiCard(detailResp.page.divs)].kids
    IN  ~Includes(ToLowerCase(CardText(kids)), "main pollutant")

\* C16: when the container has no "Main pollutant" row and no "Main pollutant"
\* text and the pollutant list is not empty, mainPollutant has the name, the
\* value and the unit of the first entry of the list, also when that unit is
\* not the default unit.
C16_MainIsFirstPollutant ==
    (DetailsExtracted /\ outcome = "ok" /\ NoMainText /\ details[1].pollutants # << >>) =>
        /\ details[1].mainPollutant.name = details[1].pollutants[1].name
        /\ details[1].mainPollutant.value = details[1].pollutants[1].value
        /\ details[1].mainPollutant.unit = details[1].pollutants[1].unit

-----------------------------------------------------------------------------
(* Properties of the windows of the Reconstructor *)

GreatestOf(S) == CHOOSE k \in S : \A j \in S : j <= k

\* index of the anchor a search result was built from: the first entry with its url
AnchorOf(data, r) == LeastOf({i \in 1..Len(data) : data[i].t = "string" /\ data[i].s = r.url})

\* positions among the 30 entries before i that hold an id token
IdPositions(data, i) ==
    {j \in Max(1, i - 30)..(i - 1) : data[j].t = "string" /\ IsIdToken(data[j].s)}

\* positions among the 30 entries before i that hold a number in (0, 600)
\* immediately followed by a boolean
AqiPositions(data, i) ==
    {j \in Max(1, i - 30)..(i - 1) :
        /\ data[j].t = "number" /\ data[j].n > 0 /\ data[j].n < 600
        /\ data[j + 1].t = "boolean"}

\* C17: for every anchor the id is the id token nearest to the anchor among the
\* 30 entries before it, and aqi and estimated come from the nearest number in
\* (0, 600) immediately followed by a boolean.
C17_NearestBackward ==
    (entry = "search" /\ pc = "done" /\ outcome = "ok") =>
        \A k \in 1..Len(searchResults) :
            LET data == searchResp.data
                i == AnchorOf(data, searchResults[k])
                ids == IdPositions(data, i)
                aqis == AqiPositions(data, i)
            IN  /\ ids # {} => searchResults[k].id = data[GreatestOf(ids)].s
                /\ aqis # {} =>
                      /\ searchResults[k].aqi = data[GreatestOf(aqis)].n
                      /\ searchResults[k].estimated = data[GreatestOf(aqis) + 1].b

\* positions among the 20 entries after i that hold a number greater than 100
FollowerPositions(data, i) ==
    {j \in (i + 1)..Min(Len(data), i + 20) : data[j].t = "number" /\ data[j].n > 100}

\* C18: for every anchor at index i followersCount is the first number greater
\* than 100 among the entries i+1 to i+20, cut at the end of the array, and 0
\* when there is none.
C18_ForwardWindow ==
    (entry = "search" /\ pc = "done" /\ outcome = "ok") =>
        \A k \in 1..Len(searchResults) :
            LET data == searchResp.data
                hits == FollowerPositions(data, AnchorOf(data, searchResults[k]))
            IN  searchResults[k].followersCount = IF hits = {} THEN 0 ELSE data[LeastOf(hits)].n

-----------------------------------------------------------------------------
(* Properties of getAQILevelColor *)

ColorDone == entry = "color" /\ pc = "done"

\* the level names one of the words of the Green, Yellow or Orange branches
MilderWord(l) ==
    \/ Includes(l, "good") \/ Includes(l, "excellent")
    \/ Includes(l, "moderate") \/ Includes(l, "fair")
    \/ Includes(l, "sensitive")

\* C19: a level containing "very unhealthy" or "hazardous" and none of
\* good/excellent/moderate/fair/sensitive yields Purple, a level containing
\* "unhealthy" but not "very unhealthy" yields Red; the input "Very Unhealthy"
\* yields Purple.
C19_PurpleForVeryUnhealthy ==
    ColorDone =>
        LET l == ToLowerCase(level)
        IN  /\ ((Includes(l, "very unhealthy") \/ Includes(l, "hazardous")) /\ ~MilderWord(l))
                  => color = "Purple"
            /\ (/\ Includes(l, "unhealthy") /\ ~Includes(l, "very unhealthy")
                /\ ~Includes(l, "hazardous") /\ ~MilderWord(l))
                  => color = "Red"
            /\ level = "Very Unhealthy" => color = "Purple"

====
